---- MODULE Spec2Model ----
(***************************************************************************)
(* Analyst-9000: user turns of one chat session.  Each turn is served by   *)
(* llm_chat_completion_stream (session, history, wire lines, persistence), *)
(* which runs the agent graph (router -> qa | sql generator loop ->        *)
(* synthesizer | error handler) through AnalystGraph.stream() and turns    *)
(* the events it derives from the node updates into lines on the wire.     *)
(*                                                                         *)
(* Text that the code handles character by character (responses, SQL,      *)
(* errors) is a sequence of one-character strings; identifiers (intent,    *)
(* title, node names, the stringified rows) are atoms.                     *)
(***************************************************************************)
EXTENDS Integers, Sequences, FiniteSets, TLC

(***************************************************************************)
(* Program constants                                                       *)
(***************************************************************************)
MAX_ITERATIONS == 3

ERROR_PREVIEW_LEN == 200

(***************************************************************************)
(* Bounds of the model                                                     *)
(***************************************************************************)
MaxRespLen == 2

\* how many requests the client of SessionSpec sends on the session
MaxTurns == 2

\* how many requests on the session are served at the same time in
\* ConcurrentSpec
MaxConcurrent == 2

(***************************************************************************)
(* Python None: for atom-valued fields and for text-valued fields          *)
(***************************************************************************)
None == "None"

NoneText == <<"<None>">>

Chars == {"a", "b"}

\* every string over Chars of length 0..n
RECURSIVE TextsUpTo(_)
TextsUpTo(n) ==
    IF n = 0 THEN {<<>>}
    ELSE LET shorter == TextsUpTo(n - 1)
         IN shorter \cup {Append(t, c) : t \in {s \in shorter : Len(s) = n - 1}, c \in Chars}

\* what a chat model may answer (QA model, response synthesizer)
Responses == TextsUpTo(MaxRespLen)

\* RouterResponse: intent is Literal["sql_agent", "qa_bot"], title is optional
Intents == {"sql_agent", "qa_bot"}

Titles == {None, "T"}

ReformedQueries == {"rq"}

\* the backtick character of a markdown code fence
BT == "~"

\* what the SQL model may answer: bare SQL, or the same wrapped in a fence
RawSqlOutputs ==
    { <<"X">>,
      <<BT, BT, BT, "s", "q", "l", " ", "Y", BT, BT, BT>> }

\* an error message longer than the preview the error handler shows
LongError == [i \in 1..(ERROR_PREVIEW_LEN + 1) |-> IF i > ERROR_PREVIEW_LEN THEN "z" ELSE "x"]

\* messages of the exceptions the query engine raises for a bad query
QueryErrors == { <<"e", "1">>, LongError }

\* messages of the exceptions it raises when it cannot be reached
TransportErrors == { <<"e", "2">> }

\* error messages of the query engine
Errors == QueryErrors \cup TransportErrors

\* the caller's temperature, or None when the request gives none
Temperatures == {None, "0.7"}

TerminalNodes == {"qa_node", "response_synthesizer_node", "error_handler_node"}

END == "__end__"

VARIABLES
    state,           \* the AgentState of the turn, as the graph runner holds it
    next,            \* the node the runner executes next, or END
    title,           \* stream(): local title
    final_response,  \* stream(): local final_response
    events,          \* stream(): the events yielded so far, in order
    pc,              \* where the request is: "idle" (none yet), "streaming"
                     \* (stream() runs), "done" (final yielded, conversation
                     \* not yet saved), "raised" (the graph failed), "closed"
                     \* (saved or not, stream ended), "no_session"
    executed,        \* history: the nodes that completed, in order
    outcomes,        \* history: for every completed SQL generator execution,
                     \* in order, whether the query engine returned rows
    store,           \* the chat_sessions table: session id -> row
    svc,             \* llm_chat_completion_stream: its locals
    lines,           \* the lines the service yielded on this request, in order
    pending,         \* how many requests the client has still to send
    calls,           \* history: the model invocations and tool calls the nodes
                     \* of the turn made and the store call that saved it, in
                     \* order
    turns,           \* the requests on the session that are served at the same
                     \* time: for each, where it is and the locals of its
                     \* llm_chat_completion_stream and stream()
    llm_text,        \* clean_sql_output: the text it is given
    cleaned,         \* clean_sql_output: what it returned for llm_text, then
                     \* for its own result, in order
    http_response    \* DELETE /sessions/{session_id}: the last response sent

vars == <<state, next, title, final_response, events, pc, executed, outcomes, store, svc, lines, pending, calls, turns, llm_text, cleaned, http_response>>

\* the variables of the text cleaning run on its own
clean_vars == <<llm_text, cleaned>>

(***************************************************************************)
(* Python helpers                                                          *)
(***************************************************************************)
\* dict.get(key, default)
Get(d, k, default) == IF k \in DOMAIN d THEN d[k] ELSE default

\* s[:n]
Take(s, n) == SubSeq(s, 1, IF Len(s) < n THEN Len(s) ELSE n)

Last(s) == s[Len(s)]

Count(s, x) == Cardinality({i \in 1..Len(s) : s[i] = x})

(***************************************************************************)
(* helpers/utils.py: clean_sql_output                                      *)
(***************************************************************************)
\* what the regex class \s and str.strip() treat as white space
IsSpace(c) == c \in {" ", "\n", "\t"}

RECURSIVE LStrip(_)
LStrip(s) == IF s # <<>> /\ IsSpace(Head(s)) THEN LStrip(Tail(s)) ELSE s

RECURSIVE RStrip(_)
RStrip(s) ==
    IF s # <<>> /\ IsSpace(Last(s)) THEN RStrip(SubSeq(s, 1, Len(s) - 1)) ELSE s

\* str.strip()
Strip(s) == RStrip(LStrip(s))

\* re.IGNORECASE on the letters of the optional language tag
LowerChar(c) ==
    CASE c = "S" -> "s" [] c = "Q" -> "q" [] c = "L" -> "l" [] OTHER -> c

Fence == <<BT, BT, BT>>

\* the optional (?:sql) right after the opening fence
HasSqlTag(s) ==
    /\ Len(s) >= 3
    /\ <<LowerChar(s[1]), LowerChar(s[2]), LowerChar(s[3])>> = <<"s", "q", "l">>

\* pattern ^```(?:sql)?\s*(.*)\s*```$ searched in the stripped output with
\* DOTALL: the text must open and close with two separate fences; group 1 is
\* what lies between the opening fence (with its tag and the white space
\* after it) and the closing fence, and is stripped again.
clean_sql_output(llm_output) ==
    LET t == Strip(llm_output)
        matches ==
            /\ Len(t) >= 2 * Len(Fence)
            /\ SubSeq(t, 1, 3) = Fence
            /\ SubSeq(t, Len(t) - 2, Len(t)) = Fence
        inner == SubSeq(t, 4, Len(t) - 3)
        group1 == IF HasSqlTag(inner) THEN SubSeq(inner, 4, Len(inner)) ELSE inner
    IN IF matches THEN Strip(group1) ELSE t

(***************************************************************************)
(* ai_core/graph/tools.py: execute_bigquery_sql                            *)
(***************************************************************************)
\* what the query engine does with a query: rows, or an exception
EngineOutcomes ==
    [kind : {"rows"}, rows : {<<>>, <<"r">>}]
        \cup [kind : {"exception"}, msg : Errors]

\* variant: an exception of the engine that is no query error is returned as
\* an empty successful result
execute_bigquery_sql_swallows(outcome) ==
    IF outcome.kind = "rows"
    THEN [success |-> TRUE, data |-> outcome.rows, row_count |-> Len(outcome.rows)]
    ELSE IF outcome.msg \in TransportErrors
    THEN [success |-> TRUE, data |-> <<>>, row_count |-> 0]
    ELSE [success |-> FALSE, error |-> outcome.msg]

\* every engine exception is caught and returned as a tagged failure
execute_bigquery_sql(outcome) ==
    IF outcome.kind = "rows"
    THEN [success |-> TRUE, data |-> outcome.rows, row_count |-> Len(outcome.rows)]
    ELSE [success |-> FALSE, error |-> outcome.msg]

\* str(result["data"]): the printed list, never None
StrOfRows(rows) == IF rows = <<>> THEN "[]" ELSE "[rows]"

(***************************************************************************)
(* ai_core/prompts/sql_generator.py: the system prompt of the SQL          *)
(* generator.  A text is a sequence of lines and a line a sequence of      *)
(* pieces; the fixed wording is abbreviated to one piece per line.         *)
(***************************************************************************)
DecimalDigits == <<"0", "1", "2", "3", "4", "5", "6", "7", "8", "9">>

\* str(i) of a positive integer, as the f-string prints it
RECURSIVE StrOfInt(_)
StrOfInt(i) ==
    IF i < 10 THEN <<DecimalDigits[i + 1]>>
    ELSE Append(StrOfInt(i \div 10), DecimalDigits[(i % 10) + 1])

NO_PREVIOUS_ATTEMPTS == <<"No previous attempts. This is the first run.">>

HISTORY_HEADER == <<"!!! HISTORY OF FAILED ATTEMPTS (LEARN FROM THESE) !!!">>

HISTORY_INSTRUCTION == <<"!!! INSTRUCTION: Do not repeat the logic that caused the errors above. !!!">>

\* the block of one attempt: enumerate(attempts, 1) gives its number
AttemptBlock(i, attempt) ==
    << <<"--- Attempt #">> \o StrOfInt(i) \o <<" ---">>,
       <<"SQL QUERY GENERATED: ">>,
       attempt.sql,
       <<"ERROR RECEIVED: ">>,
       attempt.error,
       <<"---------------------">> >>

RECURSIVE AttemptBlocks(_, _)
AttemptBlocks(attempts, i) ==
    IF i > Len(attempts) THEN <<>>
    ELSE AttemptBlock(i, attempts[i]) \o AttemptBlocks(attempts, i + 1)

\* variant: only the latest failed attempt is shown
format_attempt_history_last_only(attempts) ==
    IF attempts = <<>>
    THEN <<NO_PREVIOUS_ATTEMPTS>>
    ELSE <<HISTORY_HEADER>> \o AttemptBlock(1, Last(attempts)) \o <<HISTORY_INSTRUCTION>>

format_attempt_history(attempts) ==
    IF attempts = <<>>
    THEN <<NO_PREVIOUS_ATTEMPTS>>
    ELSE <<HISTORY_HEADER>> \o AttemptBlocks(attempts, 1) \o <<HISTORY_INSTRUCTION>>

\* what the engine handler gives as the description of its tables
TABLES_DESCRIPTION == <<"tables">>

get_sql_generator_prompt(tables_description, attempt_history) ==
    LET failures_context == format_attempt_history(attempt_history)
    IN << <<"### 1. EXECUTION HISTORY (CRITICAL - READ FIRST)">> >>
          \o failures_context
          \o << <<"### 3. Schema Context">>, tables_description >>

(***************************************************************************)
(* ai_core/graph/nodes.py: the nodes, each returning its partial update    *)
(***************************************************************************)
AIMessage(content) == [role |-> "ai", content |-> content]

HumanMessage(content) == [role |-> "human", content |-> content]

\* what the structured router model may return
RouterResponses ==
    [intent : Intents, title : Titles, reformed_query : ReformedQueries]

router_node(s, response) ==
    [intent |-> response.intent,
     title |-> response.title,
     reformed_query |-> response.reformed_query]

qa_node(s, content) ==
    [response |-> content, messages |-> <<AIMessage(content)>>]

\* variant: a failed attempt returns the history it read, not the extended one
sql_generator_node_stale_history(s, raw, outcome) ==
    LET attempt_history == s.attempt_history
        generated_sql == clean_sql_output(raw)
        result == execute_bigquery_sql(outcome)
    IN IF result.success
       THEN [generated_sql |-> generated_sql,
             sql_result |-> StrOfRows(result.data),
             n_iterations |-> s.n_iterations + 1]
       ELSE [generated_sql |-> generated_sql,
             sql_result |-> None,
             attempt_history |-> attempt_history,
             n_iterations |-> s.n_iterations + 1]

\* variant: a successful attempt is recorded in the history as well
sql_generator_node_logs_success(s, raw, outcome) ==
    LET attempt_history == s.attempt_history
        generated_sql == clean_sql_output(raw)
        result == execute_bigquery_sql(outcome)
    IN [generated_sql |-> generated_sql,
        sql_result |-> IF result.success THEN StrOfRows(result.data) ELSE None,
        attempt_history |->
            attempt_history \o
                <<[sql |-> generated_sql,
                   error |-> IF result.success THEN NoneText ELSE result.error]>>,
        n_iterations |-> s.n_iterations + 1]

\* variant: only a failed attempt counts as an iteration
sql_generator_node_no_count(s, raw, outcome) ==
    LET attempt_history == s.attempt_history
        generated_sql == clean_sql_output(raw)
        result == execute_bigquery_sql(outcome)
    IN IF result.success
       THEN [generated_sql |-> generated_sql,
             sql_result |-> StrOfRows(result.data)]
       ELSE [generated_sql |-> generated_sql,
             sql_result |-> None,
             attempt_history |->
                 attempt_history \o <<[sql |-> generated_sql, error |-> result.error]>>,
             n_iterations |-> s.n_iterations + 1]

\* variant: a failed attempt records the model's raw output, fence included,
\* not the query that was executed
sql_generator_node_records_raw(s, raw, outcome) ==
    LET attempt_history == s.attempt_history
        generated_sql == clean_sql_output(raw)
        result == execute_bigquery_sql(outcome)
    IN IF result.success
       THEN [generated_sql |-> generated_sql,
             sql_result |-> StrOfRows(result.data),
             n_iterations |-> s.n_iterations + 1]
       ELSE [generated_sql |-> generated_sql,
             sql_result |-> None,
             attempt_history |->
                 attempt_history \o <<[sql |-> raw, error |-> result.error]>>,
             n_iterations |-> s.n_iterations + 1]

\* variant: a failed attempt is put in front of the history
sql_generator_node_prepends(s, raw, outcome) ==
    LET attempt_history == s.attempt_history
        generated_sql == clean_sql_output(raw)
        result == execute_bigquery_sql(outcome)
    IN IF result.success
       THEN [generated_sql |-> generated_sql,
             sql_result |-> StrOfRows(result.data),
             n_iterations |-> s.n_iterations + 1]
       ELSE [generated_sql |-> generated_sql,
             sql_result |-> None,
             attempt_history |->
                 <<[sql |-> generated_sql, error |-> result.error]>> \o attempt_history,
             n_iterations |-> s.n_iterations + 1]

sql_generator_node(s, raw, outcome) ==
    LET attempt_history == s.attempt_history
        generated_sql == clean_sql_output(raw)
        result == execute_bigquery_sql(outcome)
    IN IF result.success
       THEN [generated_sql |-> generated_sql,
             sql_result |-> StrOfRows(result.data),
             n_iterations |-> s.n_iterations + 1]
       ELSE [generated_sql |-> generated_sql,
             sql_result |-> None,
             attempt_history |->
                 attempt_history \o <<[sql |-> generated_sql, error |-> result.error]>>,
             n_iterations |-> s.n_iterations + 1]

\* the messages the SQL generator hands its model: the system prompt built
\* on the history it read, then the reformed query (the query when there is
\* none)
SystemMessage(content) == [role |-> "system", content |-> content]

SqlGeneratorMessages(s) ==
    LET attempt_history == s.attempt_history
        system_prompt ==
            SystemMessage(get_sql_generator_prompt(TABLES_DESCRIPTION, attempt_history))
        reformed_query == IF s.reformed_query # None THEN s.reformed_query ELSE s.query
    IN <<system_prompt, HumanMessage(reformed_query)>>

response_synthesizer_node(s, content) ==
    [response |-> content, messages |-> <<AIMessage(content)>>]

\* the fixed apology and the label before the last error, both abbreviated to
\* one character that no model response contains
APOLOGY == <<"S">>

LAST_ERROR_LABEL == <<":">>

\* variant: the response shows the error of the first attempt
error_handler_node_first_error(s) ==
    LET attempt_history == s.attempt_history
        error_response ==
            IF attempt_history # <<>>
            THEN APOLOGY \o LAST_ERROR_LABEL
                    \o Take(Head(attempt_history).error, ERROR_PREVIEW_LEN)
            ELSE APOLOGY
    IN [response |-> error_response, messages |-> <<AIMessage(error_response)>>]

error_handler_node(s) ==
    LET attempt_history == s.attempt_history
        error_response ==
            IF attempt_history # <<>>
            THEN APOLOGY \o LAST_ERROR_LABEL
                    \o Take(Last(attempt_history).error, ERROR_PREVIEW_LEN)
            ELSE APOLOGY
    IN [response |-> error_response, messages |-> <<AIMessage(error_response)>>]

\* variant: an unknown or unset intent falls back to the SQL generator
route_by_intent_default_sql(s) ==
    IF s.intent = "sql_agent" THEN "sql_generator_node"
    ELSE IF s.intent = "qa_bot" THEN "qa_node"
    ELSE "sql_generator_node"

route_by_intent(s) ==
    IF s.intent = "sql_agent" THEN "sql_generator_node"
    ELSE IF s.intent = "qa_bot" THEN "qa_node"
    ELSE "qa_node"

\* variant: a failed attempt is never retried
should_retry_sql_no_retry(s) ==
    IF s.sql_result # None THEN "response_synthesizer_node"
    ELSE "error_handler_node"

\* variant: the budget is tested before the result
should_retry_sql_exhaust_first(s) ==
    IF s.n_iterations >= MAX_ITERATIONS THEN "error_handler_node"
    ELSE IF s.sql_result # None THEN "response_synthesizer_node"
    ELSE "sql_generator_node"

\* variant: the budget is exhausted only beyond MAX_ITERATIONS
should_retry_sql_gt(s) ==
    IF s.sql_result # None THEN "response_synthesizer_node"
    ELSE IF s.n_iterations > MAX_ITERATIONS THEN "error_handler_node"
    ELSE "sql_generator_node"

\* variant: a failed attempt is retried whatever the budget
should_retry_sql_unbounded(s) ==
    IF s.sql_result # None THEN "response_synthesizer_node"
    ELSE "sql_generator_node"

should_retry_sql(s) ==
    IF s.sql_result # None THEN "response_synthesizer_node"
    ELSE IF s.n_iterations >= MAX_ITERATIONS THEN "error_handler_node"
    ELSE "sql_generator_node"

(***************************************************************************)
(* ai_core/graph/graph.py: the graph, the initial state, the runner        *)
(***************************************************************************)
create_initial_state(query, session_id, messages, model_name, temperature, reasoning_budget) ==
    [session_id |-> session_id,
     query |-> query,
     reformed_query |-> None,
     messages |-> messages,
     intent |-> None,
     title |-> None,
     response |-> NoneText,
     attempt_history |-> <<>>,
     n_iterations |-> 0,
     sql_result |-> None,
     generated_sql |-> NoneText,
     model_name |-> model_name,
     temperature |-> temperature,
     reasoning_budget |-> reasoning_budget]

\* AgentState: messages accumulates (operator.add), every other key keeps the
\* last value written
Reduce(k, old, new) == IF k = "messages" THEN old \o new ELSE new

\* The runner applies a node's partial update onto the running state: a key
\* the update holds is reduced, a key it does not hold keeps its value.
\* AgentState as given declares messages, attempt_history and n_iterations;
\* the other keys, which create_initial_state sets and the nodes and routing
\* functions read (intent, title, reformed_query, response, sql_result,
\* generated_sql, ...), are merged the same way, as section 4.8 of the
\* specification states for the whole Turn State.
Merge(s, update) ==
    [k \in DOMAIN s |->
        IF k \in DOMAIN update THEN Reduce(k, s[k], update[k]) ELSE s[k]]

\* the edges: the conditional edge of a node is evaluated on the state that
\* already holds the node's update
\* variant: the QA node is wired to the response synthesizer instead of END
NextNode_qa_continues(node, s) ==
    CASE node = "router" -> route_by_intent(s)
      [] node = "sql_generator_node" -> should_retry_sql(s)
      [] node = "qa_node" -> "response_synthesizer_node"
      [] node = "response_synthesizer_node" -> END
      [] node = "error_handler_node" -> END

\* variant: the response synthesizer is wired back to the router
NextNode_synthesizer_to_router(node, s) ==
    CASE node = "router" -> route_by_intent(s)
      [] node = "sql_generator_node" -> should_retry_sql(s)
      [] node = "qa_node" -> END
      [] node = "response_synthesizer_node" -> "router"
      [] node = "error_handler_node" -> END

NextNode(node, s) ==
    CASE node = "router" -> route_by_intent(s)
      [] node = "sql_generator_node" -> should_retry_sql(s)
      [] node = "qa_node" -> END
      [] node = "response_synthesizer_node" -> END
      [] node = "error_handler_node" -> END

(***************************************************************************)
(* AnalystGraph.stream: one update of the runner turned into events        *)
(***************************************************************************)
\* variant: the token loop stops one character early
StreamEvents_short_loop(node_name, node_output) ==
    IF node_name = "router"
    THEN << [type |-> "router",
             intent |-> Get(node_output, "intent", None),
             title |-> Get(node_output, "title", None),
             reformed_query |-> Get(node_output, "reformed_query", None)] >>
    ELSE IF node_name \in {"qa_node", "response_synthesizer_node", "error_handler_node"}
    THEN LET response == Get(node_output, "response", <<>>)
         IN [i \in 1..(Len(response) - 1) |-> [type |-> "token", content |-> response[i]]]
    ELSE IF node_name = "sql_generator_node"
    THEN LET sql == Get(node_output, "generated_sql", NoneText)
             sql_result == Get(node_output, "sql_result", None)
             attempt_history == Get(node_output, "attempt_history", <<>>)
         IN << [type |-> "sql",
                query |-> sql,
                success |-> (sql_result # None),
                error |-> IF attempt_history # <<>>
                          THEN Last(attempt_history).error
                          ELSE NoneText] >>
    ELSE <<>>

\* variant: the sql event reports the first error of the history
StreamEvents_first_error(node_name, node_output) ==
    IF node_name = "router"
    THEN << [type |-> "router",
             intent |-> Get(node_output, "intent", None),
             title |-> Get(node_output, "title", None),
             reformed_query |-> Get(node_output, "reformed_query", None)] >>
    ELSE IF node_name \in {"qa_node", "response_synthesizer_node", "error_handler_node"}
    THEN LET response == Get(node_output, "response", <<>>)
         IN [i \in 1..Len(response) |-> [type |-> "token", content |-> response[i]]]
    ELSE IF node_name = "sql_generator_node"
    THEN LET sql == Get(node_output, "generated_sql", NoneText)
             sql_result == Get(node_output, "sql_result", None)
             attempt_history == Get(node_output, "attempt_history", <<>>)
         IN << [type |-> "sql",
                query |-> sql,
                success |-> (sql_result # None),
                error |-> IF attempt_history # <<>>
                          THEN Head(attempt_history).error
                          ELSE NoneText] >>
    ELSE <<>>

StreamEvents(node_name, node_output) ==
    IF node_name = "router"
    THEN << [type |-> "router",
             intent |-> Get(node_output, "intent", None),
             title |-> Get(node_output, "title", None),
             reformed_query |-> Get(node_output, "reformed_query", None)] >>
    ELSE IF node_name \in {"qa_node", "response_synthesizer_node", "error_handler_node"}
    THEN LET response == Get(node_output, "response", <<>>)
         IN [i \in 1..Len(response) |-> [type |-> "token", content |-> response[i]]]
    ELSE IF node_name = "sql_generator_node"
    THEN LET sql == Get(node_output, "generated_sql", NoneText)
             sql_result == Get(node_output, "sql_result", None)
             attempt_history == Get(node_output, "attempt_history", <<>>)
         IN << [type |-> "sql",
                query |-> sql,
                success |-> (sql_result # None),
                error |-> IF attempt_history # <<>>
                          THEN Last(attempt_history).error
                          ELSE NoneText] >>
    ELSE <<>>

StreamTitle(node_name, node_output, old) ==
    IF node_name = "router" THEN Get(node_output, "title", None) ELSE old

StreamFinalResponse(node_name, node_output, old) ==
    IF node_name \in {"qa_node", "response_synthesizer_node", "error_handler_node"}
    THEN Get(node_output, "response", <<>>)
    ELSE old

\* variant: the final event carries no title
FinalEvent_no_title(resp, t) == [type |-> "final", response |-> resp, title |-> None]

FinalEvent(resp, t) == [type |-> "final", response |-> resp, title |-> t]

ErrorEvent(msg) == [type |-> "error", error |-> msg]

(***************************************************************************)
(* core/session_store.py, schemas/db_schemas.py: the stored sessions       *)
(* (timestamps and message ids are left out)                               *)
(***************************************************************************)
MAX_HISTORY_MESSAGES == 2

Message(role, content) == [role |-> role, content |-> content]

\* a ChatSession with the defaults of its fields
ChatSession(id) ==
    [id |-> id, title |-> None, messages |-> <<>>, message_count |-> 0, is_active |-> TRUE]

\* the table with no row
NoSessions == [id \in {} |-> ChatSession(id)]

\* m.model_dump(): the dict of a message, as the set of its items
model_dump(m) == {<<"role", m.role>>, <<"content", m.content>>}

\* json.dumps of a list of messages: the array of their objects, in order
serialize_json(data) == [i \in 1..Len(data) |-> model_dump(data[i])]

\* the value an object holds for a key
ItemOf(object, key) == (CHOOSE item \in object : item[1] = key)[2]

\* json.loads and Message(**m) for every object of the array, in order
deserialize_messages(data) ==
    [i \in 1..Len(data) |-> Message(ItemOf(data[i], "role"), ItemOf(data[i], "content"))]

\* SELECT * FROM chat_sessions WHERE id = session_id, whether the row is
\* active or not: the ChatSession of the row, or None
get_session(st, session_id) ==
    IF session_id \in DOMAIN st
    THEN [id |-> st[session_id].id,
          title |-> st[session_id].title,
          messages |-> deserialize_messages(st[session_id].messages),
          message_count |-> st[session_id].message_count,
          is_active |-> st[session_id].is_active]
    ELSE None

\* INSERT of a ChatSession with the defaults: no message, count 0
create_session(st, session_id) ==
    LET session == ChatSession(session_id)
    IN [id \in DOMAIN st \cup {session_id} |->
           IF id = session_id
           THEN [id |-> session.id,
                 title |-> session.title,
                 messages |-> serialize_json(session.messages),
                 message_count |-> session.message_count,
                 is_active |-> session.is_active]
           ELSE st[id]]

\* the table after the call: a row is inserted when get_session finds none;
\* the session returned is get_session of the table after the call
get_or_create_session(st, session_id) ==
    IF session_id \in DOMAIN st THEN st ELSE create_session(st, session_id)

\* UPDATE ... SET <the keys of updates> WHERE id = session_id; the messages
\* are written as JSON; no row is touched when the id has none
update_session(st, session_id, updates) ==
    [id \in DOMAIN st |->
        IF id = session_id
        THEN [k \in DOMAIN st[id] |->
                 IF k \in DOMAIN updates
                 THEN IF k = "messages" THEN serialize_json(updates[k]) ELSE updates[k]
                 ELSE st[id][k]]
        ELSE st[id]]

\* variant: the row of the session is removed from the table
delete_session_removes_row(st, session_id) ==
    [id \in DOMAIN st \ {session_id} |-> st[id]]

\* UPDATE ... SET is_active = FALSE WHERE id = session_id: the row stays, and
\* no row is touched when the id has none; the call returns True either way
delete_session(st, session_id) ==
    [id \in DOMAIN st |->
        IF id = session_id
        THEN [k \in DOMAIN st[id] |-> IF k = "is_active" THEN FALSE ELSE st[id][k]]
        ELSE st[id]]

\* what SessionStore.delete_session returns to its caller
delete_session_returned(st, session_id) == TRUE

(***************************************************************************)
(* routers/chatbot.py: DELETE /sessions/{session_id}                       *)
(***************************************************************************)
\* no response was sent yet
NoResponse == [status_code |-> 0]

HTTPException(status_code, detail) == [status_code |-> status_code, detail |-> detail]

\* the endpoint answers on what the store returned
delete_session_response(success, session_id) ==
    IF success
    THEN [status_code |-> 200, status |-> "deleted", session_id |-> session_id]
    ELSE HTTPException(404, "Session not found")

\* a ChatSessionSummary of a row
ChatSessionSummary(row) ==
    [id |-> row.id, title |-> row.title, message_count |-> row.message_count, is_active |-> row.is_active]

\* SELECT ... WHERE is_active: the summaries of the active rows, by id (the
\* order by updated_at and the paging are left out)
list_sessions(st) ==
    [id \in {i \in DOMAIN st : st[i].is_active} |-> ChatSessionSummary(st[id])]

(***************************************************************************)
(* services/chat_history: history of a session, saving a turn              *)
(***************************************************************************)
format_new_message(content, role) == Message(role, content)

IsStoredChatMessage(m) == m.role \in {"user", "assistant"}

convert_memory_to_langchain_messages(msgs) ==
    LET kept == SelectSeq(msgs, IsStoredChatMessage)
    IN [i \in 1..Len(kept) |->
           IF kept[i].role = "user" THEN HumanMessage(kept[i].content)
           ELSE AIMessage(kept[i].content)]

\* variant: the count is taken from the session as it is, the user message
\* not counted
get_conversation_history_count_unchanged(session, user_query) ==
    LET messages == session.messages
        new_message == format_new_message(user_query, "user")
        cropped_messages ==
            IF Len(messages) > MAX_HISTORY_MESSAGES
            THEN SubSeq(messages, Len(messages) - MAX_HISTORY_MESSAGES + 1, Len(messages))
            ELSE messages
    IN [messages |-> Append(messages, new_message),
        memory |-> IF Len(messages) = 0
                   THEN <<HumanMessage(user_query)>>
                   ELSE Append(convert_memory_to_langchain_messages(cropped_messages),
                               HumanMessage(user_query)),
        message_count |-> session.message_count,
        is_first_message |-> Len(messages) = 0]

get_conversation_history(session, user_query) ==
    LET messages == session.messages
        new_message == format_new_message(user_query, "user")
        cropped_messages ==
            IF Len(messages) > MAX_HISTORY_MESSAGES
            THEN SubSeq(messages, Len(messages) - MAX_HISTORY_MESSAGES + 1, Len(messages))
            ELSE messages
    IN [messages |-> Append(messages, new_message),
        memory |-> IF Len(messages) = 0
                   THEN <<HumanMessage(user_query)>>
                   ELSE Append(convert_memory_to_langchain_messages(cropped_messages),
                               HumanMessage(user_query)),
        message_count |-> session.message_count + 1,
        is_first_message |-> Len(messages) = 0]

\* variant: the turn is written without the assistant message
save_conversation_user_only(st, session_id, messages, response_text, ttl, message_count) ==
    LET keys == {"messages", "message_count"} \cup (IF ttl # None THEN {"title"} ELSE {})
        update_data ==
            [k \in keys |->
                CASE k = "messages" -> messages
                  [] k = "message_count" -> message_count + 1
                  [] k = "title" -> ttl]
    IN update_session(st, session_id, update_data)

\* variant: the turn is written in place of the stored conversation
save_conversation_replaces_history(st, session_id, messages, response_text, ttl, message_count) ==
    LET assistant_message == format_new_message(response_text, "assistant")
        keys == {"messages", "message_count"} \cup (IF ttl # None THEN {"title"} ELSE {})
        update_data ==
            [k \in keys |->
                CASE k = "messages" -> <<Last(messages), assistant_message>>
                  [] k = "message_count" -> message_count + 1
                  [] k = "title" -> ttl]
    IN update_session(st, session_id, update_data)

\* the table after save_conversation wrote the turn
save_conversation(st, session_id, messages, response_text, ttl, message_count) ==
    LET assistant_message == format_new_message(response_text, "assistant")
        keys == {"messages", "message_count"} \cup (IF ttl # None THEN {"title"} ELSE {})
        update_data ==
            [k \in keys |->
                CASE k = "messages" -> Append(messages, assistant_message)
                  [] k = "message_count" -> message_count + 1
                  [] k = "title" -> ttl]
    IN update_session(st, session_id, update_data)

(***************************************************************************)
(* services/chatbot/chatbot_service.py: llm_chat_completion_stream         *)
(* A line on the wire is the sequence of its pieces: the "data: " prefix,  *)
(* a marker if any, and the payload.                                       *)
(***************************************************************************)
DATA == "data: "

TitleLine(t) == <<DATA, "TITLE: ", t>>

TokenLine(content) == <<DATA, content>>

ResponseLine(response_text) == <<DATA>> \o response_text

ErrorLine(msg) == <<DATA, "Error: ", msg>>

DoneLine == <<DATA, "[DONE]">>

SESSION_INIT_FAILED == "Failed to initialize session"

\* Python truth of an optional text: neither None nor empty
TruthyText(t) == t # NoneText /\ t # <<>>

\* the locals of the service once the session and its history are read
ServiceLocals(session, history) ==
    [session |-> session,
     messages |-> history.messages,
     message_count |-> history.message_count,
     is_first_message |-> history.is_first_message,
     title |-> None,
     response_text |-> <<>>]

\* the body of the loop over graph.stream(): the locals after one event and
\* the lines yielded for it
ServiceOnEvent(s, event) ==
    IF event.type = "router"
    THEN IF s.is_first_message /\ event.title # None
         THEN [svc |-> [s EXCEPT !.title = event.title],
               lines |-> <<TitleLine(event.title)>>]
         ELSE [svc |-> s, lines |-> <<>>]
    ELSE IF event.type = "token"
    THEN [svc |-> [s EXCEPT !.response_text = Append(@, event.content)],
          lines |-> <<TokenLine(event.content)>>]
    ELSE IF event.type = "final"
    THEN LET whole == s.response_text = <<>> /\ TruthyText(event.response)
             response_text == IF whole THEN event.response ELSE s.response_text
             late == s.title = None /\ event.title # None
         IN [svc |-> [s EXCEPT !.response_text = response_text,
                               !.title = IF late THEN event.title ELSE @],
             lines |-> (IF whole THEN <<ResponseLine(response_text)>> ELSE <<>>)
                          \o (IF late THEN <<TitleLine(event.title)>> ELSE <<>>)]
    ELSE IF event.type = "error"
    THEN [svc |-> s, lines |-> <<ErrorLine(event.error)>>]
    ELSE [svc |-> s, lines |-> <<>>]

\* the loop over the events stream() yields in one go: the events of the
\* first half are handled, then those of the second half
RECURSIVE ServiceOnEvents(_, _)
ServiceOnEvents(s, evs) ==
    IF Len(evs) = 0 THEN [svc |-> s, lines |-> <<>>]
    ELSE IF Len(evs) = 1 THEN ServiceOnEvent(s, evs[1])
    ELSE LET half == Len(evs) \div 2
             first == ServiceOnEvents(s, SubSeq(evs, 1, half))
             rest == ServiceOnEvents(first.svc, SubSeq(evs, half + 1, Len(evs)))
         IN IF first.lines = <<>> /\ first.svc = s
            THEN rest
            ELSE [svc |-> rest.svc, lines |-> first.lines \o rest.lines]

\* variant: the except clause yields the Error line only
GraphFailedLines_no_done(msg) == <<ErrorLine(msg)>>

\* the except clause around the loop: the exception stream() re-raised
GraphFailedLines(msg) == <<ErrorLine(msg), DoneLine>>

(***************************************************************************)
(* The requests of a session as a state machine                            *)
(***************************************************************************)
\* the request of the client: the same prompt on the same session id
PROMPT == <<"q">>

SESSION_ID == "s1"

\* before the first request no Turn State and no service locals exist: the
\* variables hold blank values that no action reads
NoTurnState == create_initial_state(<<>>, None, <<>>, None, None, None)

NoRequest ==
    ServiceLocals(ChatSession(None),
                  [messages |-> <<>>, message_count |-> 0, is_first_message |-> FALSE])

\* the requests served at the same time, and one that has not arrived yet
TurnIds == 1..MaxConcurrent

NoTurn ==
    [pc |-> "idle", state |-> NoTurnState, next |-> END, title |-> None,
     final_response |-> NoneText, svc |-> NoRequest, executed |-> <<>>, outcomes |-> <<>>]

\* no text is being cleaned
NoText == <<>>

\* the service is up, the table is empty, the client is about to send n
\* requests
RequestsInit(n) ==
    /\ state = NoTurnState
    /\ next = END
    /\ title = None
    /\ final_response = NoneText
    /\ events = <<>>
    /\ pc = "idle"
    /\ executed = <<>>
    /\ outcomes = <<>>
    /\ store = NoSessions
    /\ svc = NoRequest
    /\ lines = <<>>
    /\ pending = n
    /\ calls = <<>>
    /\ turns = [t \in TurnIds |-> NoTurn]
    /\ http_response = NoResponse

InitWith(n) ==
    /\ RequestsInit(n)
    /\ llm_text = NoText
    /\ cleaned = <<>>

\* a client that sends one request: the first turn of a new session
Init == InitWith(1)

\* a client that sends MaxTurns requests on the session
SessionInit == InitWith(MaxTurns)

\* no request is being served
Idle == pc \in {"idle", "closed", "raised", "no_session"}

\* a request arrives, the session is read or created, its history is built
\* and stream() creates the Turn State
StartTurn ==
    /\ Idle /\ pending > 0
    /\ \E temperature \in Temperatures :
          LET st == get_or_create_session(store, SESSION_ID)
              session == get_session(st, SESSION_ID)
              history == get_conversation_history(session, PROMPT)
          IN /\ store' = st
             /\ svc' = ServiceLocals(session, history)
             /\ state' = create_initial_state(PROMPT, session.id, history.memory,
                                              None, temperature, None)
    /\ next' = "router"
    /\ title' = None
    /\ final_response' = NoneText
    /\ events' = <<>>
    /\ pc' = "streaming"
    /\ executed' = <<>>
    /\ outcomes' = <<>>
    /\ lines' = <<>>
    /\ pending' = pending - 1
    /\ calls' = <<>>
    /\ UNCHANGED <<turns, clean_vars, http_response>>

\* a request arrives and get_or_create_chat_session raises
SessionInitFails ==
    /\ Idle /\ pending > 0
    /\ lines' = <<ErrorLine(SESSION_INIT_FAILED), DoneLine>>
    /\ pc' = "no_session"
    /\ pending' = pending - 1
    /\ calls' = <<>>
    /\ UNCHANGED <<turns, clean_vars, http_response>>
    /\ state' = NoTurnState
    /\ next' = END
    /\ title' = None
    /\ final_response' = NoneText
    /\ events' = <<>>
    /\ executed' = <<>>
    /\ outcomes' = <<>>
    /\ svc' = NoRequest
    /\ UNCHANGED store

\* the service receives the events stream() yields and yields their lines
Deliver(evs) ==
    LET r == ServiceOnEvents(svc, evs)
    IN /\ svc' = r.svc
       /\ lines' = lines \o r.lines

\* variant: the next node is picked on the state as it was before the update
Step_routes_before_merge(node, update) ==
    /\ state' = Merge(state, update)
    /\ next' = NextNode(node, state)
    /\ title' = StreamTitle(node, update, title)
    /\ final_response' = StreamFinalResponse(node, update, final_response)
    /\ events' = events \o StreamEvents(node, update)
    /\ Deliver(StreamEvents(node, update))
    /\ executed' = Append(executed, node)
    /\ pc' = pc
    /\ UNCHANGED <<store, pending, turns, clean_vars, http_response>>

\* variant: the events of an update are put before those already yielded
Step_events_prepended(node, update) ==
    /\ state' = Merge(state, update)
    /\ next' = NextNode(node, state')
    /\ title' = StreamTitle(node, update, title)
    /\ final_response' = StreamFinalResponse(node, update, final_response)
    /\ events' = StreamEvents(node, update) \o events
    /\ Deliver(StreamEvents(node, update))
    /\ executed' = Append(executed, node)
    /\ pc' = pc
    /\ UNCHANGED <<store, pending, turns, clean_vars, http_response>>

\* node `node` completed with `update`: the runner merges it and picks the next
\* node, stream() receives {node: update} and yields its events
Step(node, update) ==
    /\ state' = Merge(state, update)
    /\ next' = NextNode(node, state')
    /\ title' = StreamTitle(node, update, title)
    /\ final_response' = StreamFinalResponse(node, update, final_response)
    /\ events' = events \o StreamEvents(node, update)
    /\ Deliver(StreamEvents(node, update))
    /\ executed' = Append(executed, node)
    /\ pc' = pc
    /\ UNCHANGED <<store, pending, turns, clean_vars, http_response>>

\* the temperature the router and the SQL generator pin
ZERO == "0"

\* variant: the override is ignored and the caller's temperature is used
get_model_config_ignores_override(s, override_temp) ==
    LET temperature == s.temperature
        configurable ==
            (IF s.model_name # None THEN {<<"model", s.model_name>>} ELSE {})
            \cup (IF temperature # None THEN {<<"temperature", temperature>>} ELSE {})
            \cup (IF s.reasoning_budget # None
                  THEN {<<"thinking_budget", s.reasoning_budget>>} ELSE {})
    IN IF configurable # {} THEN {<<"configurable", configurable>>} ELSE {}

\* the config dict of a model invocation, as the set of its items; the
\* thinking budget is named by the level it is computed from
get_model_config(s, override_temp) ==
    LET temperature == IF override_temp # None THEN override_temp ELSE s.temperature
        configurable ==
            (IF s.model_name # None THEN {<<"model", s.model_name>>} ELSE {})
            \cup (IF temperature # None THEN {<<"temperature", temperature>>} ELSE {})
            \cup (IF s.reasoning_budget # None
                  THEN {<<"thinking_budget", s.reasoning_budget>>} ELSE {})
    IN IF configurable # {} THEN {<<"configurable", configurable>>} ELSE {}

\* the config each node builds for its model invocation
NodeModelConfig(node, s) ==
    IF node \in {"router", "sql_generator_node"}
    THEN get_model_config(s, ZERO)
    ELSE get_model_config(s, None)

\* the calls a node makes outside the process: a model invocation with the
\* config it was given, and one that raised
ModelCall(node, config) == <<"model", node, config>>

FailedModelCall(node, config) == <<"model", node, config, "raised">>

\* the invocation of the SQL model, with the messages it was given
SqlModelCall(config, messages) ==
    <<"model", "sql_generator_node", config, "returned", messages>>

FailedSqlModelCall(config, messages) ==
    <<"model", "sql_generator_node", config, "raised", messages>>

\* what the query engine did with the query of a tool call
EngineResult(outcome) ==
    IF outcome.kind = "rows" THEN "rows"
    ELSE IF outcome.msg \in TransportErrors THEN "transport_failure"
    ELSE "query_failure"

\* a call of the SQL tool and the tagged result it returned: the tool's try
\* covers the whole engine call, so the call returns whatever the engine did
ToolCall(result) == <<"tool", "execute_bigquery_sql", result>>

\* the calls a raising node made: the model invocation that raised; the SQL
\* generator reads the tables description first, which builds the engine
\* client on first use and can raise before any model invocation
RaisingCalls(node, s) ==
    IF node = "sql_generator_node"
    THEN {<<>>, <<FailedSqlModelCall(NodeModelConfig(node, s), SqlGeneratorMessages(s))>>}
    ELSE {<<FailedModelCall(node, NodeModelConfig(node, s))>>}

RouterStep ==
    /\ pc = "streaming" /\ next = "router"
    /\ \E response \in RouterResponses : Step("router", router_node(state, response))
    /\ calls' = Append(calls, ModelCall("router", get_model_config(state, ZERO)))
    /\ UNCHANGED outcomes

QaStep ==
    /\ pc = "streaming" /\ next = "qa_node"
    /\ \E content \in Responses : Step("qa_node", qa_node(state, content))
    /\ calls' = Append(calls, ModelCall("qa_node", get_model_config(state, None)))
    /\ UNCHANGED outcomes

SqlGeneratorStep ==
    /\ pc = "streaming" /\ next = "sql_generator_node"
    /\ \E raw \in RawSqlOutputs, outcome \in EngineOutcomes :
          /\ Step("sql_generator_node", sql_generator_node(state, raw, outcome))
          /\ outcomes' = Append(outcomes, outcome.kind = "rows")
          /\ calls' = calls \o <<SqlModelCall(get_model_config(state, ZERO),
                                               SqlGeneratorMessages(state)),
                                  ToolCall(EngineResult(outcome))>>

ResponseSynthesizerStep ==
    /\ pc = "streaming" /\ next = "response_synthesizer_node"
    /\ \E content \in Responses :
          Step("response_synthesizer_node", response_synthesizer_node(state, content))
    /\ calls' = Append(calls, ModelCall("response_synthesizer_node", get_model_config(state, None)))
    /\ UNCHANGED outcomes

ErrorHandlerStep ==
    /\ pc = "streaming" /\ next = "error_handler_node"
    /\ Step("error_handler_node", error_handler_node(state))
    /\ UNCHANGED <<outcomes, calls>>

\* the nodes that invoke a model re-raise what the invocation raises
ModelNodes ==
    {"router", "qa_node", "sql_generator_node", "response_synthesizer_node"}

\* what str(e) gives for the exception a node raised
EXC == "exc"

\* variant: the error event is put before the events already yielded
NodeRaises_error_first ==
    /\ pc = "streaming" /\ next \in ModelNodes
    /\ events' = <<ErrorEvent(EXC)>> \o events
    /\ LET r == ServiceOnEvents(svc, <<ErrorEvent(EXC)>>)
       IN /\ svc' = r.svc
          /\ lines' = lines \o r.lines \o GraphFailedLines(EXC)
    /\ \E made \in RaisingCalls(next, state) : calls' = calls \o made
    /\ pc' = "raised"
    /\ UNCHANGED <<state, next, title, final_response, executed, outcomes, store, pending, turns, clean_vars, http_response>>

\* variant: the conversation read so far is saved when the graph fails
NodeRaises_saves ==
    /\ pc = "streaming" /\ next \in ModelNodes
    /\ events' = Append(events, ErrorEvent(EXC))
    /\ LET r == ServiceOnEvents(svc, <<ErrorEvent(EXC)>>)
       IN /\ svc' = r.svc
          /\ lines' = lines \o r.lines \o GraphFailedLines(EXC)
    /\ \E made \in RaisingCalls(next, state) : calls' = calls \o made
    /\ store' = save_conversation(store, svc.session.id, svc.messages,
                                  svc.response_text, svc.title, svc.message_count)
    /\ pc' = "raised"
    /\ UNCHANGED <<state, next, title, final_response, executed, outcomes, pending, turns, clean_vars, http_response>>

\* variant: a router that raises is taken to have answered qa_bot and the turn
\* goes on
NodeRaises_router_defaults ==
    /\ pc = "streaming" /\ next \in ModelNodes
    /\ IF next = "router"
       THEN /\ Step("router", router_node(state, [intent |-> "qa_bot", title |-> None, reformed_query |-> "rq"]))
            /\ calls' = Append(calls, FailedModelCall("router", get_model_config(state, ZERO)))
            /\ UNCHANGED outcomes
       ELSE /\ events' = Append(events, ErrorEvent(EXC))
            /\ LET r == ServiceOnEvents(svc, <<ErrorEvent(EXC)>>)
               IN /\ svc' = r.svc
                  /\ lines' = lines \o r.lines \o GraphFailedLines(EXC)
            /\ \E made \in RaisingCalls(next, state) : calls' = calls \o made
            /\ pc' = "raised"
            /\ UNCHANGED <<state, next, title, final_response, executed, outcomes, store, pending, turns, clean_vars, http_response>>

\* a node raises: stream() yields one error event and re-raises; the service
\* yields the line of the event, then its except clause yields its lines and
\* the service returns
NodeRaises ==
    /\ pc = "streaming" /\ next \in ModelNodes
    /\ events' = Append(events, ErrorEvent(EXC))
    /\ LET r == ServiceOnEvents(svc, <<ErrorEvent(EXC)>>)
       IN /\ svc' = r.svc
          /\ lines' = lines \o r.lines \o GraphFailedLines(EXC)
    /\ \E made \in RaisingCalls(next, state) : calls' = calls \o made
    /\ pc' = "raised"
    /\ UNCHANGED <<state, next, title, final_response, executed, outcomes, store, pending, turns, clean_vars, http_response>>

\* the runner reached END: stream() yields the final event and returns
StreamFinal ==
    /\ pc = "streaming" /\ next = END
    /\ events' = Append(events, FinalEvent(final_response, title))
    /\ Deliver(<<FinalEvent(final_response, title)>>)
    /\ pc' = "done"
    /\ UNCHANGED <<state, next, title, final_response, executed, outcomes, store, pending, turns, calls, clean_vars, http_response>>

\* how the call of store.update_session in save_conversation went: "saved",
\* "write_raised" (the UPDATE raised, nothing was written) or
\* "read_back_raised" (the UPDATE was committed and the get_session that
\* follows it raised)
StoreCall(result) == <<"store", "update_session", result>>

\* the conversation is saved, the service yields [DONE]
SaveConversation ==
    /\ pc = "done"
    /\ store' = save_conversation(store, svc.session.id, svc.messages,
                                  svc.response_text, svc.title, svc.message_count)
    /\ lines' = Append(lines, DoneLine)
    /\ calls' = Append(calls, StoreCall("saved"))
    /\ pc' = "closed"
    /\ UNCHANGED <<state, next, title, final_response, events, executed, outcomes, svc, pending, turns, clean_vars, http_response>>

\* variant: the store keeps the user message of a save that raised
SaveConversationFails_keeps_user_message ==
    /\ pc = "done"
    /\ store' = update_session(store, svc.session.id, [messages |-> svc.messages])
    /\ lines' = Append(lines, DoneLine)
    /\ calls' = Append(calls, StoreCall("write_raised"))
    /\ pc' = "closed"
    /\ UNCHANGED <<state, next, title, final_response, events, executed, outcomes, svc, pending, turns, clean_vars, http_response>>

\* the store raises while writing: the exception is logged, nothing is
\* written, the service yields [DONE]
SaveConversationFails ==
    /\ pc = "done"
    /\ lines' = Append(lines, DoneLine)
    /\ calls' = Append(calls, StoreCall("write_raised"))
    /\ pc' = "closed"
    /\ UNCHANGED <<state, next, title, final_response, events, executed, outcomes, store, svc, pending, turns, clean_vars, http_response>>

\* the store commits the UPDATE and raises while reading the row back: the
\* exception is logged, the conversation is stored, the service yields [DONE]
SaveConversationReadBackFails ==
    /\ pc = "done"
    /\ store' = save_conversation(store, svc.session.id, svc.messages,
                                  svc.response_text, svc.title, svc.message_count)
    /\ lines' = Append(lines, DoneLine)
    /\ calls' = Append(calls, StoreCall("read_back_raised"))
    /\ pc' = "closed"
    /\ UNCHANGED <<state, next, title, final_response, events, executed, outcomes, svc, pending, turns, clean_vars, http_response>>

Next ==
    \/ StartTurn
    \/ SessionInitFails
    \/ RouterStep
    \/ QaStep
    \/ SqlGeneratorStep
    \/ ResponseSynthesizerStep
    \/ ErrorHandlerStep
    \/ NodeRaises
    \/ StreamFinal
    \/ SaveConversation
    \/ SaveConversationFails
    \/ SaveConversationReadBackFails

\* one turn on a new session
Spec == Init /\ [][Next]_vars

\* MaxTurns turns on the same session
SessionSpec == SessionInit /\ [][Next]_vars

(***************************************************************************)
(* Requests on one session served at the same time. Every request runs    *)
(* llm_chat_completion_stream with locals of its own; the event loop       *)
(* switches between them at the awaits: between the lookup of the session  *)
(* and its creation, after the history was read, after every node, before  *)
(* the save. The requests differ in their prompt; the model answers and    *)
(* the engine outcomes are drawn from small sets; a node of a request may  *)
(* raise and its save may fail, as in Spec.                                *)
(***************************************************************************)
\* the variables of the single request of Spec
request_vars == <<state, next, title, final_response, events, pc, executed, outcomes, svc, lines, pending, calls>>

\* the prompt of request t: t characters
TurnPrompt(t) == [i \in 1..t |-> "q"]

\* what the models answer and what the engine does in these requests
TURN_ANSWER == <<"a">>

TURN_SQL == <<"X">>

TurnOutcomes == {[kind |-> "rows", rows |-> <<"r">>], [kind |-> "exception", msg |-> <<"e", "1">>]}

\* variant: the Turn State of a request starts with the attempts and the
\* iteration count of the requests that are running
TurnStart_inherits(t) ==
    /\ turns[t].pc = "idle"
    /\ LET st == get_or_create_session(store, SESSION_ID)
           session == get_session(st, SESSION_ID)
           history == get_conversation_history(session, TurnPrompt(t))
           fresh == create_initial_state(TurnPrompt(t), session.id, history.memory, None, None, None)
           running == {u \in TurnIds : turns[u].pc = "streaming" /\ turns[u].state.n_iterations > 0}
           shared == IF running = {} THEN fresh
                     ELSE LET u == CHOOSE u \in running : TRUE
                          IN [fresh EXCEPT !.attempt_history = turns[u].state.attempt_history,
                                           !.n_iterations = turns[u].state.n_iterations]
       IN /\ store' = st
          /\ turns' = [turns EXCEPT ![t] =
                          [pc |-> "streaming", state |-> shared, next |-> "router",
                           title |-> None, final_response |-> NoneText,
                           svc |-> ServiceLocals(session, history),
                           executed |-> <<>>, outcomes |-> <<>>]]
    /\ UNCHANGED <<request_vars, clean_vars, http_response>>

\* the request t goes on with the session it was given: steps 2 to 4 of the
\* service and the first lines of stream(), up to the first await of the
\* graph
TurnBegin(t, session) ==
    LET history == get_conversation_history(session, TurnPrompt(t))
    IN turns' = [turns EXCEPT ![t] =
                    [pc |-> "streaming",
                     state |-> create_initial_state(TurnPrompt(t), session.id, history.memory, None, None, None),
                     next |-> "router",
                     title |-> None, final_response |-> NoneText,
                     svc |-> ServiceLocals(session, history),
                     executed |-> <<>>, outcomes |-> <<>>]]

\* request t arrives: get_or_create_session awaits get_session; with the row
\* it found the request goes on, with none it is about to create the session
TurnStart(t) ==
    /\ turns[t].pc = "idle"
    /\ IF SESSION_ID \in DOMAIN store
       THEN TurnBegin(t, get_session(store, SESSION_ID))
       ELSE turns' = [turns EXCEPT ![t] = [@ EXCEPT !.pc = "creating"]]
    /\ UNCHANGED <<store, request_vars, clean_vars, http_response>>

\* the INSERT of a row with the id of another row is refused
InsertRaises(st, session_id) == session_id \in DOMAIN st

\* request t, whose get_session found no row, awaits create_session: the
\* INSERT adds the row, or it raises because a request served meanwhile has
\* added it, and the service answers that the session could not be
\* initialised
TurnCreateSession(t) ==
    /\ turns[t].pc = "creating"
    /\ IF InsertRaises(store, SESSION_ID)
       THEN /\ turns' = [turns EXCEPT ![t] = [@ EXCEPT !.pc = "no_session"]]
            /\ UNCHANGED store
       ELSE /\ store' = create_session(store, SESSION_ID)
            /\ TurnBegin(t, ChatSession(SESSION_ID))
    /\ UNCHANGED <<request_vars, clean_vars, http_response>>

\* a node of request t completed with `update`: as Step, on the locals of t
TurnStep(t, node, update) ==
    LET merged == Merge(turns[t].state, update)
    IN /\ turns' = [turns EXCEPT ![t] =
                       [@ EXCEPT !.state = merged,
                                 !.next = NextNode(node, merged),
                                 !.title = StreamTitle(node, update, @),
                                 !.final_response = StreamFinalResponse(node, update, @),
                                 !.svc = ServiceOnEvents(@, StreamEvents(node, update)).svc,
                                 !.executed = Append(@, node),
                                 !.outcomes = IF node = "sql_generator_node"
                                              THEN Append(@, merged.sql_result # None)
                                              ELSE @]]
       /\ UNCHANGED <<store, request_vars, clean_vars, http_response>>

\* the node request t is waiting for completes
TurnNode(t) ==
    /\ turns[t].pc = "streaming" /\ turns[t].next # END
    /\ LET node == turns[t].next
           s == turns[t].state
       IN CASE node = "router" ->
                  \E response \in RouterResponses : TurnStep(t, node, router_node(s, response))
            [] node = "qa_node" -> TurnStep(t, node, qa_node(s, TURN_ANSWER))
            [] node = "sql_generator_node" ->
                  \E outcome \in TurnOutcomes :
                      TurnStep(t, node, sql_generator_node(s, TURN_SQL, outcome))
            [] node = "response_synthesizer_node" ->
                  TurnStep(t, node, response_synthesizer_node(s, TURN_ANSWER))
            [] node = "error_handler_node" -> TurnStep(t, node, error_handler_node(s))

\* the graph of request t reached END: the final event reaches the service
TurnFinal(t) ==
    /\ turns[t].pc = "streaming" /\ turns[t].next = END
    /\ turns' = [turns EXCEPT ![t] =
                    [@ EXCEPT !.pc = "done",
                              !.svc = ServiceOnEvent(@, FinalEvent(turns[t].final_response, turns[t].title)).svc]]
    /\ UNCHANGED <<store, request_vars, clean_vars, http_response>>

\* request t saves its conversation and ends
TurnSave(t) ==
    /\ turns[t].pc = "done"
    /\ LET l == turns[t].svc
       IN store' = save_conversation(store, l.session.id, l.messages,
                                     l.response_text, l.title, l.message_count)
    /\ turns' = [turns EXCEPT ![t] = [@ EXCEPT !.pc = "closed"]]
    /\ UNCHANGED <<request_vars, clean_vars, http_response>>

\* the node request t is waiting for raises: the service yields the error
\* lines and returns without saving
TurnRaises(t) ==
    /\ turns[t].pc = "streaming" /\ turns[t].next \in ModelNodes
    /\ turns' = [turns EXCEPT ![t] = [@ EXCEPT !.pc = "raised"]]
    /\ UNCHANGED <<store, request_vars, clean_vars, http_response>>

\* the save of request t raises before anything is written; the service
\* logs it and ends, its conversation unsaved
TurnSaveFails(t) ==
    /\ turns[t].pc = "done"
    /\ turns' = [turns EXCEPT ![t] = [@ EXCEPT !.pc = "unsaved"]]
    /\ UNCHANGED <<store, request_vars, clean_vars, http_response>>

ConcurrentNext ==
    \E t \in TurnIds :
        \/ TurnStart(t)
        \/ TurnCreateSession(t)
        \/ TurnNode(t)
        \/ TurnRaises(t)
        \/ TurnFinal(t)
        \/ TurnSave(t)
        \/ TurnSaveFails(t)

ConcurrentSpec == Init /\ [][ConcurrentNext]_vars

\* DELETE /sessions/{session_id} is served: it can arrive at any moment,
\* before, between and in the middle of the requests on the session
DeleteSession ==
    /\ store' = delete_session(store, SESSION_ID)
    /\ http_response' =
          delete_session_response(delete_session_returned(store, SESSION_ID), SESSION_ID)
    /\ UNCHANGED <<request_vars, turns, clean_vars>>

NextWithDelete ==
    \/ ConcurrentNext
    \/ DeleteSession

\* the requests on a session with deletions of the session at any moment
DeleteSpec == Init /\ [][NextWithDelete]_vars

(***************************************************************************)
(* clean_sql_output run on its own: on what a model may answer, then on    *)
(* its own result.                                                         *)
(***************************************************************************)
\* the white space a model may put around a fence or a query
Paddings == {<<>>, <<" ">>, <<"\n">>}

\* the language tag of an opening fence: none, or sql in either case
FenceTags == {<<>>, <<"s", "q", "l">>, <<"S", "Q", "L">>}

Queries == {<<"X">>, <<"X", " ", "Y">>}

BareOutputs == {a \o q \o b : a \in Paddings, q \in Queries, b \in Paddings}

\* text wrapped in one fence
Fenced(tag, a, text, b) == Fence \o tag \o a \o text \o b \o Fence

FencedOutputs ==
    {Fenced(tag, a, q, b) : tag \in FenceTags, a \in Paddings, q \in Queries, b \in Paddings}

\* a fence padded on the outside, and a fence around a fence
PaddedOutputs == {a \o f \o b : a \in Paddings, f \in {Fenced(<<>>, <<>>, <<"X">>, <<>>)}, b \in Paddings}

NestedOutputs ==
    {Fenced(<<>>, a, Fenced(tag, <<>>, <<"X">>, <<>>), a) : a \in Paddings, tag \in FenceTags}

LLMOutputs == BareOutputs \cup FencedOutputs \cup PaddedOutputs \cup NestedOutputs

CleanInit ==
    /\ RequestsInit(0)
    /\ llm_text \in LLMOutputs
    /\ cleaned = <<>>

\* generated_sql = clean_sql_output(response_msg.content)
CleanOutput ==
    /\ cleaned = <<>>
    /\ cleaned' = <<clean_sql_output(llm_text)>>
    /\ UNCHANGED <<request_vars, store, turns, http_response, llm_text>>

\* the result is cleaned once more
CleanAgain ==
    /\ Len(cleaned) = 1
    /\ cleaned' = Append(cleaned, clean_sql_output(cleaned[1]))
    /\ UNCHANGED <<request_vars, store, turns, http_response, llm_text>>

CleanNext ==
    \/ CleanOutput
    \/ CleanAgain

CleanSpec == CleanInit /\ [][CleanNext]_vars

(***************************************************************************)
(* Vocabulary of the properties                                            *)
(***************************************************************************)
\* how many times node n completed in this turn
Runs(n) == Count(executed, n)

TerminalRuns == Cardinality({i \in 1..Len(executed) : executed[i] \in TerminalNodes})

\* how many of the first i SQL executions failed
FailuresUpTo(i) == Cardinality({j \in 1..i : ~outcomes[j]})

AllSqlFailed == \A i \in 1..Len(outcomes) : ~outcomes[i]

IsSqlEvent(e) == e.type = "sql"

SqlEvents == SelectSeq(events, IsSqlEvent)

IsTokenEvent(e) == e.type = "token"

TokenEvents == SelectSeq(events, IsTokenEvent)

\* the retry decision has left the SQL loop
LoopEnded == Runs("sql_generator_node") > 0 /\ next # "sql_generator_node"

\* the values the intent of a state may hold: the router's two, an unset one,
\* and one outside the schema
IntentValues == Intents \cup {None, "other"}

\* the turn took the QA branch
RoutedToQa == next = "qa_node" \/ Runs("qa_node") > 0

\* the event types node n yields when it produced response resp
TypesOf(n, resp) ==
    IF n = "router" THEN <<"router">>
    ELSE IF n = "sql_generator_node" THEN <<"sql">>
    ELSE [i \in 1..Len(resp) |-> "token"]

RECURSIVE ExpectedTypes(_, _)
ExpectedTypes(nodes, resp) ==
    IF nodes = <<>> THEN <<>>
    ELSE TypesOf(Head(nodes), resp) \o ExpectedTypes(Tail(nodes), resp)

\* the events stream() derives from node updates
IsNodeEvent(e) == e.type \in {"router", "sql", "token"}

NodeEventTypes == [i \in 1..Len(SelectSeq(events, IsNodeEvent)) |->
                      SelectSeq(events, IsNodeEvent)[i].type]

(***************************************************************************)
(* C1: in a turn routed to the SQL agent in which every SQL execution      *)
(* fails, the SQL generator never runs more than MAX_ITERATIONS times, and *)
(* when the retry loop ends it has run exactly MAX_ITERATIONS times,       *)
(* n_iterations = MAX_ITERATIONS, attempt_history holds MAX_ITERATIONS     *)
(* entries and the terminal node is error_handler_node.  (The loop ends    *)
(* when the retry decision picks another node; a turn cut short by an      *)
(* exception never ends its loop.)                                         *)
(***************************************************************************)
C1_AllFailuresExhaustBudget ==
    (state.intent = "sql_agent" /\ AllSqlFailed) =>
        /\ Runs("sql_generator_node") <= MAX_ITERATIONS
        /\ LoopEnded =>
              /\ Runs("sql_generator_node") = MAX_ITERATIONS
              /\ state.n_iterations = MAX_ITERATIONS
              /\ Len(state.attempt_history) = MAX_ITERATIONS
              /\ \/ next = "error_handler_node"
                 \/ next = END /\ Last(executed) = "error_handler_node"
              /\ Runs("qa_node") = 0
              /\ Runs("response_synthesizer_node") = 0

C1_Witness ==
    /\ pc = "done"
    /\ state.intent = "sql_agent"
    /\ AllSqlFailed
    /\ Len(outcomes) = MAX_ITERATIONS
    /\ Last(executed) = "error_handler_node"

(***************************************************************************)
(* C2: when the first successful SQL execution is attempt k, then          *)
(* k <= MAX_ITERATIONS, no SQL attempt follows it, the response            *)
(* synthesizer is what the runner enters, and from its entry on            *)
(* attempt_history has exactly k-1 entries and n_iterations = k.           *)
(***************************************************************************)
C2_SuccessOnAttemptK ==
    \A k \in 1..Len(outcomes) :
        (outcomes[k] /\ \A j \in 1..(k - 1) : ~outcomes[j]) =>
            /\ k <= MAX_ITERATIONS
            /\ Len(outcomes) = k
            /\ Runs("sql_generator_node") = k
            /\ next \in {"response_synthesizer_node", END}
            /\ Len(state.attempt_history) = k - 1
            /\ state.n_iterations = k

C2_Witness ==
    /\ next = "response_synthesizer_node"
    /\ outcomes = <<FALSE, FALSE, TRUE>>
    /\ Len(state.attempt_history) = 2

(***************************************************************************)
(* C3: after every execution of the SQL generator the next node is decided *)
(* on the state that holds that execution's update: the response           *)
(* synthesizer iff sql_result is non-null, else the error handler iff      *)
(* n_iterations >= MAX_ITERATIONS, else the SQL generator again; the       *)
(* response synthesizer is never entered with a null sql_result.           *)
(***************************************************************************)
C3_RetryDecision ==
    /\ (executed # <<>> /\ Last(executed) = "sql_generator_node") =>
          /\ state.n_iterations = Len(outcomes)
          /\ (state.sql_result # None) <=> Last(outcomes)
          /\ (next = "response_synthesizer_node") <=> (state.sql_result # None)
          /\ (next = "error_handler_node") <=>
                (state.sql_result = None /\ state.n_iterations >= MAX_ITERATIONS)
          /\ (next = "sql_generator_node") <=>
                (state.sql_result = None /\ state.n_iterations < MAX_ITERATIONS)
    /\ (next = "response_synthesizer_node" \/ Runs("response_synthesizer_node") > 0) =>
          state.sql_result # None

C3_Witness ==
    /\ executed # <<>>
    /\ Last(executed) = "sql_generator_node"
    /\ next = "sql_generator_node"
    /\ state.n_iterations = 2

(***************************************************************************)
(* C4: 0 <= n_iterations <= MAX_ITERATIONS in every state of a turn, and   *)
(* the SQL generator is never the next node once n_iterations has reached  *)
(* MAX_ITERATIONS.                                                         *)
(***************************************************************************)
C4_IterationsBounded ==
    /\ state.n_iterations \in 0..MAX_ITERATIONS
    /\ next = "sql_generator_node" => state.n_iterations < MAX_ITERATIONS

C4_Witness ==
    /\ state.n_iterations = MAX_ITERATIONS
    /\ next = "error_handler_node"

(***************************************************************************)
(* C5: in every state of a turn, attempt_history has one entry per SQL     *)
(* execution that failed so far, n_iterations is the number of SQL         *)
(* executions made so far, and len(attempt_history) <= n_iterations.       *)
(***************************************************************************)
C5_HistoryCountsFailures ==
    /\ Len(state.attempt_history) = FailuresUpTo(Len(outcomes))
    /\ state.n_iterations = Len(outcomes)
    /\ Len(state.attempt_history) <= state.n_iterations

C5_Witness ==
    /\ outcomes = <<FALSE, TRUE>>
    /\ Len(state.attempt_history) = 1
    /\ state.n_iterations = 2

(***************************************************************************)
(* C6: at most one of qa_node, response_synthesizer_node and               *)
(* error_handler_node executes in a turn; in a turn that completes without *)
(* an exception exactly one of them executed, exactly once; response is    *)
(* unset until that node executes, and is what that node produced.         *)
(***************************************************************************)
C6_OneTerminalNode ==
    /\ TerminalRuns <= 1
    /\ pc = "done" => TerminalRuns = 1
    /\ TerminalRuns = 0 => state.response = NoneText
    /\ TerminalRuns = 1 =>
          /\ Last(executed) \in TerminalNodes
          /\ state.response # NoneText
          /\ state.response = final_response
          /\ next = END

C6_Witness ==
    /\ pc = "done"
    /\ Runs("response_synthesizer_node") = 1
    /\ Runs("qa_node") = 0
    /\ Runs("error_handler_node") = 0

(***************************************************************************)
(* C7: route_by_intent chooses the SQL generator iff the intent of the     *)
(* state is exactly sql_agent, and the QA node for qa_bot, for any other   *)
(* value and for an unset intent; the node after the router is the one it  *)
(* chooses, so a turn with intent sql_agent never runs the QA node and     *)
(* reaches no terminal node and no end without the SQL generator having    *)
(* executed.                                                               *)
(***************************************************************************)
C7_RouteByIntent ==
    /\ \A i \in IntentValues :
          route_by_intent([state EXCEPT !.intent = i]) =
              IF i = "sql_agent" THEN "sql_generator_node" ELSE "qa_node"
    /\ (executed # <<>> /\ Last(executed) = "router") =>
          next = IF state.intent = "sql_agent" THEN "sql_generator_node" ELSE "qa_node"
    /\ state.intent = "sql_agent" =>
          /\ Runs("qa_node") = 0
          /\ (TerminalRuns > 0 \/ next = END) => Runs("sql_generator_node") >= 1
    /\ state.intent = "qa_bot" => Runs("sql_generator_node") = 0

C7_Witness ==
    /\ state.intent = "sql_agent"
    /\ executed = <<"router", "sql_generator_node">>

(***************************************************************************)
(* C8: a turn routed to the QA node that completes without an exception    *)
(* yields exactly: one router event, one token event per character of the  *)
(* QA response from left to right, one final event; and no sql event is    *)
(* ever yielded in a turn routed to the QA node.                           *)
(***************************************************************************)
C8_QaEventSequence ==
    /\ RoutedToQa => SqlEvents = <<>>
    /\ (pc = "done" /\ RoutedToQa) =>
          LET r == state.response
          IN /\ Len(events) = Len(r) + 2
             /\ events[1].type = "router"
             /\ \A i \in 1..Len(r) : events[i + 1] = [type |-> "token", content |-> r[i]]
             /\ events[Len(events)].type = "final"

C8_Witness ==
    /\ pc = "done"
    /\ Runs("qa_node") = 1
    /\ state.response = <<"a", "b">>

(***************************************************************************)
(* C9: in a turn on the SQL path the events come in the order the nodes    *)
(* executed: the single router event first, then one sql event per SQL     *)
(* attempt in attempt order, then the token events of the terminal node;   *)
(* a final or error event is the last event of the stream, and a completed *)
(* turn ends with the final event.                                         *)
(***************************************************************************)
C9_SqlPathEventOrder ==
    state.intent = "sql_agent" =>
        /\ NodeEventTypes = ExpectedTypes(executed, state.response)
        /\ \A i \in 1..Len(events) :
              events[i].type \in {"final", "error"} => i = Len(events)
        /\ \A i \in 1..Len(SqlEvents) : SqlEvents[i].success = outcomes[i]
        /\ \A i \in 1..Len(TokenEvents) : TokenEvents[i].content = state.response[i]
        /\ pc = "done" =>
              /\ Last(events).type = "final"
              /\ Len(events) = 1 + Len(outcomes) + Len(state.response) + 1

C9_Witness ==
    /\ pc = "done"
    /\ state.intent = "sql_agent"
    /\ outcomes = <<FALSE, TRUE>>
    /\ state.response = <<"b", "a">>

(***************************************************************************)
(* C10: every execution of the SQL generator yields exactly one sql event, *)
(* so the sql events number n_iterations; the event's success is true iff  *)
(* that attempt's sql_result is non-null; its error is the error of the    *)
(* attempt_history entry that attempt appended if it failed, and null if   *)
(* it succeeded, also after earlier failures.                              *)
(***************************************************************************)
C10_OneSqlEventPerAttempt ==
    /\ Len(SqlEvents) = state.n_iterations
    /\ Len(SqlEvents) = Len(outcomes)
    /\ \A i \in 1..Len(SqlEvents) :
          /\ SqlEvents[i].success = outcomes[i]
          /\ outcomes[i] => SqlEvents[i].error = NoneText
          /\ ~outcomes[i] =>
                /\ SqlEvents[i].error = state.attempt_history[FailuresUpTo(i)].error
                /\ SqlEvents[i].query = state.attempt_history[FailuresUpTo(i)].sql
    /\ (executed # <<>> /\ Last(executed) = "sql_generator_node") =>
          /\ Last(SqlEvents).success = (state.sql_result # None)
          /\ Last(SqlEvents).query = state.generated_sql

C10_Witness ==
    /\ outcomes = <<FALSE, TRUE>>
    /\ Len(SqlEvents) = 2
    /\ SqlEvents[1].error \in Errors
    /\ SqlEvents[2].error = NoneText

(***************************************************************************)
(* Vocabulary of the properties of the event stream                        *)
(***************************************************************************)
IsFinalEvent(e) == e.type = "final"

FinalEvents == SelectSeq(events, IsFinalEvent)

IsErrorEvent(e) == e.type = "error"

ErrorEvents == SelectSeq(events, IsErrorEvent)

IsRouterEvent(e) == e.type = "router"

RouterEvents == SelectSeq(events, IsRouterEvent)

\* the contents of the token events, in the order they were yielded
TokenText == [i \in 1..Len(TokenEvents) |-> TokenEvents[i].content]

\* a terminal node completed and the runner reached END
TerminalNodeDone == next = END /\ executed # <<>> /\ Last(executed) \in TerminalNodes

\* stream() yielded its final event
FinalYielded == pc \in {"done", "closed"}

(***************************************************************************)
(* C11: once a terminal node has completed, stream() yields exactly one    *)
(* final event, as its last event; the event's response is the text the    *)
(* terminal node produced, which is the concatenation in order of the      *)
(* contents of all token events, and its title is the title of the router  *)
(* event.  No final event is yielded before.                               *)
(***************************************************************************)
C11_FinalEvent ==
    /\ pc = "streaming" => Len(FinalEvents) = 0
    /\ FinalYielded =>
          /\ TerminalNodeDone
          /\ Len(FinalEvents) = 1
          /\ Last(events).type = "final"
          /\ Last(events).response = Last(state.messages).content
          /\ Last(events).response = TokenText
          /\ Len(RouterEvents) = 1
          /\ Last(events).title = RouterEvents[1].title

C11_Witness ==
    /\ pc = "done"
    /\ Last(events).type = "final"
    /\ Last(events).response = <<"a", "b">>
    /\ Last(events).title = "T"
    /\ Len(TokenEvents) = 2

(***************************************************************************)
(* C12: when a node raises, stream() yields exactly one error event, after *)
(* all the events it had yielded, then lets the exception propagate: the   *)
(* stream holds no final event and gets no further event.  A stream never  *)
(* holds both a final and an error event, and an error event only when a   *)
(* node raised.                                                            *)
(***************************************************************************)
C12_ErrorEventOnRaise ==
    [][ /\ (pc = "streaming" /\ pc' = "raised") =>
              /\ Len(ErrorEvents) = 0 /\ Len(FinalEvents) = 0
              /\ Len(events') = Len(events) + 1
              /\ SubSeq(events', 1, Len(events)) = events
              /\ Last(events').type = "error"
        /\ (pc = "raised" /\ pc' = "raised") => events' = events
        /\ (pc' = "raised") => (Len(ErrorEvents') = 1 /\ Len(FinalEvents') = 0)
        /\ (pc' # "raised") => Len(ErrorEvents') = 0
        /\ ~(Len(ErrorEvents') > 0 /\ Len(FinalEvents') > 0) ]_vars

C12_Witness ==
    /\ pc = "raised"
    /\ Len(SqlEvents) = 2
    /\ Len(events) = 4
    /\ Last(events).type = "error"

(***************************************************************************)
(* Vocabulary of the properties of the response stream                     *)
(***************************************************************************)
IsErrorLine(l) == Len(l) >= 2 /\ l[1] = DATA /\ l[2] = "Error: "

ErrorLines == SelectSeq(lines, IsErrorLine)

IsDoneLine(l) == l = DoneLine

DoneLines == SelectSeq(lines, IsDoneLine)

IsTitleLine(l) == Len(l) >= 2 /\ l[1] = DATA /\ l[2] = "TITLE: "

TitleLines == SelectSeq(lines, IsTitleLine)

\* the service returned: the response stream of the request is complete
StreamClosed == pc \in {"raised", "closed", "no_session"}

(***************************************************************************)
(* C13: when the graph execution of a turn fails, the response stream      *)
(* holds exactly one Error line, carrying the message of the failure, and  *)
(* the [DONE] line immediately follows it.                                 *)
(***************************************************************************)
C13_OneErrorLineThenDone ==
    pc = "raised" =>
        /\ Len(ErrorLines) = 1
        /\ Len(lines) >= 2
        /\ lines[Len(lines) - 1] = ErrorLine(EXC)
        /\ lines[Len(lines)] = DoneLine

(***************************************************************************)
(* C14: every response stream of the service ends with the [DONE] line:    *)
(* once the service has returned - after a saved turn, after a failed      *)
(* save, after a graph failure, after a session initialisation failure -   *)
(* the stream holds [DONE] exactly once, as its last line; while the       *)
(* service runs it holds no [DONE].                                        *)
(***************************************************************************)
C14_DoneEndsEveryStream ==
    /\ StreamClosed =>
          /\ Len(DoneLines) = 1
          /\ Last(lines) = DoneLine
    /\ ~StreamClosed => Len(DoneLines) = 0

\* the save failed: nothing was written, the stream still ends with [DONE]
C14_Witness ==
    /\ pc = "closed"
    /\ get_session(store, SESSION_ID).messages = <<>>
    /\ Len(lines) = 3
    /\ Last(lines) = DoneLine

\* a request that passed session initialisation is being served or was served
InTurn == pc \in {"streaming", "done", "raised", "closed"}

\* the turn is a later turn of its session: the stored history was not empty
\* when it started
LaterTurn == InTurn /\ ~svc.is_first_message

(***************************************************************************)
(* C15: the title of a session is set only by its first turn (stored       *)
(* history empty at turn start).  On a later turn, whatever title the      *)
(* router returns, no TITLE line is sent and the stored title stays what   *)
(* it was at turn start; and one response stream holds at most one TITLE   *)
(* line.                                                                   *)
(***************************************************************************)
C15_TitleOnlyOnFirstTurn ==
    /\ Len(TitleLines) <= 1
    /\ LaterTurn =>
          /\ Len(TitleLines) = 0
          /\ get_session(store, SESSION_ID).title = svc.session.title

\* the turn is the first of its session: the stored history was empty when it
\* started
FirstTurn == InTurn /\ svc.is_first_message

(***************************************************************************)
(* C16: the title of the router event is non-null if and only if the turn  *)
(* is the first turn of a session whose history was empty at turn start;   *)
(* on every later turn of the session it is null.                          *)
(***************************************************************************)
C16_RouterTitleIffFirstTurn ==
    (InTurn /\ Len(RouterEvents) > 0) =>
        ((RouterEvents[1].title # None) <=> FirstTurn)

(***************************************************************************)
(* C17: the error handler executes only when the retry budget is           *)
(* exhausted: in the state it starts from sql_result is null, n_iterations *)
(* is at least MAX_ITERATIONS and attempt_history is not empty.  Its       *)
(* execution invokes no model and calls no SQL tool.                       *)
(***************************************************************************)
C17_ErrorHandlerOnlyWhenExhausted ==
    [][ (Len(executed') = Len(executed) + 1 /\ Last(executed') = "error_handler_node") =>
            /\ state.sql_result = None
            /\ state.n_iterations >= MAX_ITERATIONS
            /\ Len(state.attempt_history) > 0
            /\ calls' = calls
            /\ outcomes' = outcomes ]_vars

C17_Witness ==
    /\ executed # <<>>
    /\ Last(executed) = "error_handler_node"
    /\ state.n_iterations = MAX_ITERATIONS
    /\ Len(calls) = 1 + 2 * MAX_ITERATIONS
    /\ Last(calls)[1] = "tool"

\* the errors of the failed attempts of the turn, in order
AttemptErrors == [i \in 1..Len(state.attempt_history) |-> state.attempt_history[i].error]

\* the attempts failed with errors that differ from one another in the part
\* the error handler shows
DistinctErrors ==
    \A i, j \in 1..Len(AttemptErrors) :
        i # j => Take(AttemptErrors[i], ERROR_PREVIEW_LEN) # Take(AttemptErrors[j], ERROR_PREVIEW_LEN)

\* the text the error handler gives for error err
ApologyFor(err) == APOLOGY \o LAST_ERROR_LABEL \o Take(err, ERROR_PREVIEW_LEN)

(***************************************************************************)
(* C18: when MAX_ITERATIONS consecutive attempts failed and the error      *)
(* handler ran, its response is the fixed apology followed by the first    *)
(* ERROR_PREVIEW_LEN characters of the error of the last attempt (the one  *)
(* the last sql event reports); when the errors are distinct it is never   *)
(* the text built from an earlier attempt's error.                         *)
(***************************************************************************)
C18_ApologyShowsLastError ==
    Runs("error_handler_node") > 0 =>
        /\ Len(AttemptErrors) = MAX_ITERATIONS
        /\ state.response = ApologyFor(AttemptErrors[MAX_ITERATIONS])
        /\ state.response = ApologyFor(Last(SqlEvents).error)
        /\ Len(state.response) <= Len(APOLOGY) + Len(LAST_ERROR_LABEL) + ERROR_PREVIEW_LEN
        /\ DistinctErrors =>
              \A i \in 1..(MAX_ITERATIONS - 1) : state.response # ApologyFor(AttemptErrors[i])

\* three distinct errors, the last one longer than the preview
C18_Witness ==
    /\ Runs("error_handler_node") > 0
    /\ DistinctErrors
    /\ AttemptErrors[MAX_ITERATIONS] = LongError
    /\ Len(state.response) = Len(APOLOGY) + Len(LAST_ERROR_LABEL) + ERROR_PREVIEW_LEN
    /\ TokenText = state.response

\* the step completed a SQL attempt whose query the engine refused
AttemptFailed == Len(outcomes') = Len(outcomes) + 1 /\ ~Last(outcomes')

\* the retry budget was exhausted and the error handler has run
Exhausted == Runs("error_handler_node") > 0

(***************************************************************************)
(* C19: a recoverable query failure (the tool reports success = false)     *)
(* never produces an error event or an Error line.  While retries remain   *)
(* it only leads to another SQL attempt; when they are exhausted the turn  *)
(* ends on the success path: the tokens of the apology, a final event, the *)
(* apology saved as the assistant message, and [DONE] as the last line.    *)
(***************************************************************************)
C19_RecoverableFailureIsNoError ==
    [][ /\ AttemptFailed =>
              /\ Len(ErrorEvents') = 0 /\ Len(ErrorLines') = 0
              /\ pc' = "streaming"
              /\ next' = IF Len(outcomes') < MAX_ITERATIONS
                         THEN "sql_generator_node" ELSE "error_handler_node"
        /\ Exhausted' =>
              /\ Len(ErrorEvents') = 0 /\ Len(ErrorLines') = 0
              /\ TokenText' = ApologyFor(Last(SqlEvents').error)
              /\ pc' \in {"streaming", "done", "closed"}
              /\ pc' \in {"done", "closed"} =>
                    (Last(events').type = "final" /\ Len(FinalEvents') = 1)
              /\ pc' = "closed" => Last(lines') = DoneLine
        /\ (Exhausted /\ pc = "done" /\ store' # store) =>
              /\ pc' = "closed"
              /\ Last(get_session(store', SESSION_ID).messages) =
                    Message("assistant", ApologyFor(Last(SqlEvents).error)) ]_vars

C19_Witness ==
    /\ pc = "closed"
    /\ Exhausted
    /\ outcomes = <<FALSE, FALSE, FALSE>>
    /\ Last(get_session(store, SESSION_ID).messages) = Message("assistant", TokenText)
    /\ Len(ErrorLines) = 0
    /\ Last(lines) = DoneLine

\* the step made a call of the SQL tool in which the query engine could not
\* be reached
TransportFailure ==
    /\ Len(calls') > Len(calls)
    /\ Last(calls') = ToolCall("transport_failure")

(***************************************************************************)
(* C20: a failure of the SQL tool call for a reason other than a bad query *)
(* (transport or connectivity failure of the query engine) is not retried: *)
(* it appends nothing to attempt_history, leads to no further SQL          *)
(* generation attempt, and ends the turn with one error event.             *)
(***************************************************************************)
C20_TransportFailureNotRetried ==
    [][ TransportFailure =>
            /\ state'.attempt_history = state.attempt_history
            /\ next' # "sql_generator_node"
            /\ pc' = "raised"
            /\ Len(ErrorEvents') = 1
            /\ Last(events').type = "error" ]_vars

\* the tagged result the tool returns for an outcome of the engine: rows with
\* their count, or the text of the exception
IsTaggedResult(outcome, r) ==
    IF outcome.kind = "rows"
    THEN /\ DOMAIN r = {"success", "data", "row_count"}
         /\ r.success = TRUE
         /\ r.data = outcome.rows
         /\ r.row_count = Len(outcome.rows)
    ELSE /\ DOMAIN r = {"success", "error"}
         /\ r.success = FALSE
         /\ r.error = outcome.msg

\* the step made a call of the SQL tool
ToolCalled ==
    /\ Len(calls') > Len(calls)
    /\ Last(calls')[1] = "tool"

(***************************************************************************)
(* C21: the SQL tool never throws past its boundary: every outcome of      *)
(* executing a query, every exception of the query engine included, is     *)
(* returned as {success: true, data, row_count} or {success: false,       *)
(* error}; a step that called the tool goes on with the node's update and  *)
(* yields no error event.                                                  *)
(***************************************************************************)
C21_ToolReturnsTaggedResult ==
    [][ /\ \A outcome \in EngineOutcomes :
              IsTaggedResult(outcome, execute_bigquery_sql(outcome))
        /\ ToolCalled =>
              /\ Last(calls')[3] \in {"rows", "query_failure", "transport_failure"}
              /\ pc' = "streaming"
              /\ Len(ErrorEvents') = 0
              /\ Last(events').type = "sql"
              /\ Last(events').success = (Last(calls')[3] = "rows")
              /\ Last(calls')[3] # "rows" => Last(events').error \in Errors ]_vars

\* the engine raised a transport exception and the tool returned it tagged
C21_Witness ==
    /\ calls # <<>>
    /\ Last(calls) = ToolCall("transport_failure")
    /\ pc = "streaming"
    /\ Last(events).type = "sql"
    /\ Last(events).error \in TransportErrors

\* the stored fields a turn writes when it is saved
Persisted(session) == [messages |-> session.messages, message_count |-> session.message_count, title |-> session.title]

(***************************************************************************)
(* C22: when a turn ends with a model or infrastructure failure, nothing   *)
(* of that turn is persisted: the failing step writes nothing to the       *)
(* store, and the session's stored messages, message_count and title are   *)
(* those the turn read at its start, so neither the user query nor any     *)
(* assistant text is stored.                                               *)
(***************************************************************************)
C22_FailedTurnPersistsNothing ==
    [][ pc' = "raised" =>
            /\ store' = store
            /\ Persisted(get_session(store', SESSION_ID)) = Persisted(svc'.session)
            /\ Append(get_session(store', SESSION_ID).messages, Last(svc'.messages)) = svc'.messages
            /\ get_session(store', SESSION_ID).message_count = svc'.message_count - 1 ]_vars

\* a later turn of a session with a stored conversation fails after the SQL
\* loop succeeded, and the stored conversation is still the one of turn one
C22_Witness ==
    /\ pc = "raised"
    /\ Len(get_session(store, SESSION_ID).messages) = 2
    /\ Len(SqlEvents) >= 1
    /\ Last(executed) = "sql_generator_node"

\* a line that carries one token of the response
IsTokenLine(l) == Len(l) = 2 /\ l[1] = DATA /\ ~IsDoneLine(l)

TokenLines == SelectSeq(lines, IsTokenLine)

\* the step is the end of a turn whose save raised before anything was written
SaveRaised ==
    /\ Len(calls') > Len(calls)
    /\ Last(calls') = StoreCall("write_raised")

(***************************************************************************)
(* C23: a failure to persist the conversation at the end of a turn is      *)
(* swallowed: the token lines of the response were all sent before it and  *)
(* stay as they were, no Error line is sent for it, the stream ends with   *)
(* [DONE], and the stored session is the one the turn read at its start.   *)
(***************************************************************************)
C23_SaveFailureIsSwallowed ==
    [][ SaveRaised =>
            /\ lines' = Append(lines, DoneLine)
            /\ TokenLines' = [i \in 1..Len(TokenEvents) |-> TokenLine(TokenEvents[i].content)]
            /\ Len(ErrorLines') = 0
            /\ Len(DoneLines') = 1
            /\ Last(lines') = DoneLine
            /\ store' = store
            /\ Persisted(get_session(store', SESSION_ID)) = Persisted(svc.session) ]_vars

\* the save of a later turn raised after its tokens were sent: the stored
\* conversation is still the one of the first turn
C23_Witness ==
    /\ pc = "closed"
    /\ calls # <<>>
    /\ Last(calls) = StoreCall("write_raised")
    /\ Len(TokenLines) >= 2
    /\ Len(get_session(store, SESSION_ID).messages) = 2

\* the router's model invocation raised in this step: the call failed or its
\* structured output could not be parsed
RouterRaises ==
    /\ Len(calls') > Len(calls)
    /\ Last(calls') = FailedModelCall("router", get_model_config(state, ZERO))

(***************************************************************************)
(* C24: a failure of the router's model invocation or of the parsing of    *)
(* its structured output is fatal to the turn: no intent is defaulted, no  *)
(* node executes (QA, SQL generator or terminal), no router event is       *)
(* yielded, and the stream yields one error event and propagates.          *)
(***************************************************************************)
C24_RouterFailureIsFatal ==
    /\ [][ RouterRaises =>
                /\ pc' = "raised"
                /\ state' = state
                /\ executed' = executed
                /\ events' = <<ErrorEvent(EXC)>> ]_vars
    /\ [](pc = "raised" /\ next = "router" =>
                /\ state.intent = None
                /\ executed = <<>>
                /\ Len(RouterEvents) = 0
                /\ Len(FinalEvents) = 0
                /\ events = <<ErrorEvent(EXC)>>
                /\ calls = <<FailedModelCall("router", get_model_config(state, ZERO))>>)

\* the router raised on the first request of a session
C24_Witness ==
    /\ pc = "raised"
    /\ next = "router"
    /\ calls = <<FailedModelCall("router", get_model_config(state, ZERO))>>
    /\ events = <<ErrorEvent(EXC)>>

\* the config of a model invocation that sets the temperature and nothing else
TemperatureOnly(t) == {<<"configurable", {<<"temperature", t>>}>>}

\* the model invocations of the turn so far, failed ones included
IsModelCall(c) == c[1] = "model"

ModelCalls == SelectSeq(calls, IsModelCall)

(***************************************************************************)
(* C29: the router and the SQL generator are always invoked with           *)
(* temperature 0, whatever temperature the caller supplied (none           *)
(* included), so their configuration is the same in turns that differ only *)
(* in the caller's temperature; the QA node and the response synthesizer   *)
(* are invoked with exactly the caller's temperature, and with no          *)
(* temperature when the caller supplied none.                              *)
(***************************************************************************)
C29_TemperaturePinnedForRouterAndSql ==
    \A i \in 1..Len(ModelCalls) :
        LET node == ModelCalls[i][2]
            config == ModelCalls[i][3]
        IN IF node \in {"router", "sql_generator_node"}
           THEN config = TemperatureOnly(ZERO)
           ELSE /\ node \in {"qa_node", "response_synthesizer_node"}
                /\ config = IF state.temperature = None
                            THEN {}
                            ELSE TemperatureOnly(state.temperature)

\* the caller supplied 0.7: the router and the SQL generator were invoked
\* with 0 and the response synthesizer with 0.7
C29_Witness ==
    /\ state.temperature = "0.7"
    /\ Len(ModelCalls) = 3
    /\ ModelCalls[1] = ModelCall("router", TemperatureOnly(ZERO))
    /\ ModelCalls[2] = SqlModelCall(TemperatureOnly(ZERO), SqlGeneratorMessages(state))
    /\ ModelCalls[3] = ModelCall("response_synthesizer_node", TemperatureOnly("0.7"))

\* the step is the completion of a node
NodeCompleted == Len(executed') = Len(executed) + 1

\* the keys of the Turn State the update of a node holds
ReturnedKeys(node) ==
    IF node = "router" THEN {"intent", "title", "reformed_query"}
    ELSE IF node = "sql_generator_node"
    THEN {"generated_sql", "sql_result", "n_iterations", "attempt_history"}
    ELSE {"response", "messages"}

(***************************************************************************)
(* C30: the runner merges each node's partial update onto the Turn State   *)
(* before the next transition: intent, reformed_query and title of the     *)
(* router and generated_sql and sql_result of the SQL generator are in the *)
(* state the routing function is evaluated on and later nodes read, and a  *)
(* field the node does not return keeps its value, so query, session_id    *)
(* and the model override fields stay as given at the start of the turn.   *)
(***************************************************************************)
C30_UpdatesMergedBeforeRouting ==
    [][ NodeCompleted =>
          LET node == Last(executed')
          IN /\ \A k \in DOMAIN state \ ReturnedKeys(node) : state'[k] = state[k]
             /\ DOMAIN state' = DOMAIN state
             /\ next' = NextNode(node, state')
             /\ node = "router" =>
                   /\ state'.intent = Last(events').intent
                   /\ state'.title = Last(events').title
                   /\ state'.reformed_query = Last(events').reformed_query
                   /\ next' = route_by_intent(state')
                   /\ (state'.intent = "sql_agent") = (next' = "sql_generator_node")
             /\ node = "sql_generator_node" =>
                   /\ state'.generated_sql = Last(events').query
                   /\ (state'.sql_result # None) = Last(events').success
                   /\ Last(events').success =>
                         /\ state'.attempt_history = state.attempt_history
                         /\ next' = "response_synthesizer_node"
                   /\ state'.reformed_query = state.reformed_query
                   /\ state'.intent = "sql_agent"
             /\ state'.query = PROMPT
             /\ state'.session_id = SESSION_ID
             /\ state'.model_name = None
             /\ state'.reasoning_budget = None
             /\ state'.temperature = state.temperature ]_vars

\* the synthesizer completed after a failed and a successful attempt: the
\* state still holds the router's intent and reformed query, the failed
\* attempt, the successful SQL and its result
C30_Witness ==
    /\ executed = <<"router", "sql_generator_node", "sql_generator_node", "response_synthesizer_node">>
    /\ state.intent = "sql_agent"
    /\ state.reformed_query = "rq"
    /\ state.title = "T"
    /\ Len(state.attempt_history) = 1
    /\ state.sql_result # None
    /\ state.generated_sql # NoneText
    /\ state.temperature = "0.7"

\* the step inserted the row of the session
SessionCreated == SESSION_ID \notin DOMAIN store /\ SESSION_ID \in DOMAIN store'

\* the step wrote the conversation of the turn to the row of the session
SessionUpdated ==
    /\ Len(calls') > Len(calls)
    /\ Last(calls') \in {StoreCall("saved"), StoreCall("read_back_raised")}

\* the messages the save of the turn appends to those the turn read
AppendedMessages == <<Message("user", PROMPT), Message("assistant", svc.response_text)>>

(***************************************************************************)
(* C25: session round trip: a session that is created, then updated by N   *)
(* appended messages, then fetched, returns exactly N+1 messages, the      *)
(* first being the initializer, in the original order with unchanged       *)
(* content: a created session is fetched with one message, and an update   *)
(* that appends messages is fetched with the messages fetched before it    *)
(* followed by the appended ones.                                          *)
(***************************************************************************)
C25_SessionRoundTrip ==
    /\ [][ SessionCreated => Len(get_session(store', SESSION_ID).messages) = 1 ]_vars
    /\ [][ SessionUpdated =>
              get_session(store', SESSION_ID).messages
                  = get_session(store, SESSION_ID).messages \o AppendedMessages ]_vars

\* the session has a row and the row is flagged inactive
Deleted(st) == SESSION_ID \in DOMAIN st /\ ~st[SESSION_ID].is_active

\* the step flagged the row of the session inactive
Deactivated == SESSION_ID \in DOMAIN store /\ store[SESSION_ID].is_active /\ Deleted(store')

(***************************************************************************)
(* C26: soft delete never physically removes a session: after              *)
(* delete_session(id) the row still exists with its messages unchanged and *)
(* is only flagged inactive, list_sessions never returns it again, and no  *)
(* later operation (further chat turns on the same id through              *)
(* get_or_create and save included) makes it active or listed again.       *)
(***************************************************************************)
C26_SoftDeleteKeepsRow ==
    /\ [][ DOMAIN store \subseteq DOMAIN store' ]_vars
    /\ [][ Deactivated =>
              /\ store' = delete_session(store, SESSION_ID)
              /\ get_session(store', SESSION_ID).messages = get_session(store, SESSION_ID).messages
              /\ get_session(store', SESSION_ID).message_count = get_session(store, SESSION_ID).message_count
              /\ get_session(store', SESSION_ID).title = get_session(store, SESSION_ID).title ]_vars
    /\ [][ Deleted(store) =>
              /\ Deleted(store')
              /\ SESSION_ID \notin DOMAIN list_sessions(store') ]_vars
    /\ [](\A id \in DOMAIN list_sessions(store) : store[id].is_active)

\* the session was deleted after a first request was saved; a second request
\* on the same id ran and was saved: the row holds both turns, is inactive
\* and is not listed
C26_Witness ==
    /\ \A t \in TurnIds : turns[t].pc = "closed"
    /\ turns[2].svc.session.is_active = FALSE
    /\ Len(turns[2].svc.session.messages) = 2
    /\ Deleted(store)
    /\ Len(get_session(store, SESSION_ID).messages) = 4
    /\ get_session(store, SESSION_ID).message_count = 4
    /\ list_sessions(store) = NoSessions

\* how many attempts of a request the engine refused
FailedAttempts(t) == Len(SelectSeq(turns[t].outcomes, LAMBDA ok : ~ok))

(***************************************************************************)
(* C27: every turn starts from a Turn State of its own with                *)
(* attempt_history = [] and n_iterations = 0, and no Turn State is shared: *)
(* in every interleaving of turns that run at the same time a step of one  *)
(* turn leaves the Turn State of the others as it was, the attempt         *)
(* history and the iteration count of a turn count its own attempts only,  *)
(* and a turn that starts after another one ended starts from the same     *)
(* empty values.                                                           *)
(***************************************************************************)
C27_TurnStateIsFreshAndOwn ==
    /\ [][ \A t \in TurnIds :
              (turns[t].pc # "streaming" /\ turns'[t].pc = "streaming") =>
                  /\ turns'[t].state.attempt_history = <<>>
                  /\ turns'[t].state.n_iterations = 0
                  /\ turns'[t].state.sql_result = None
                  /\ turns'[t].state.response = NoneText
                  /\ turns'[t].state.query = TurnPrompt(t) ]_vars
    /\ [][ \A t, u \in TurnIds :
              (t # u /\ turns'[t] # turns[t]) => turns'[u] = turns[u] ]_vars
    /\ [](\A t \in TurnIds :
              /\ turns[t].state.n_iterations = Len(turns[t].outcomes)
              /\ Len(turns[t].state.attempt_history) = FailedAttempts(t)
              /\ (turns[t].state.sql_result # None) =>
                    (turns[t].outcomes # <<>> /\ Last(turns[t].outcomes)))

\* two requests are in their SQL loops at the same time: one has failed twice,
\* the other has just succeeded at its first attempt
C27_Witness ==
    /\ turns[1].pc = "streaming" /\ turns[2].pc = "streaming"
    /\ turns[1].state.n_iterations = 2
    /\ Len(turns[1].state.attempt_history) = 2
    /\ turns[2].state.n_iterations = 1
    /\ turns[2].state.attempt_history = <<>>
    /\ turns[2].state.sql_result # None

\* the requests have all ended, and each read the history before any of them
\* wrote: each read the empty history of the new session
AllReadBeforeAnyWrite ==
    \A t \in TurnIds :
        /\ turns[t].pc = "closed"
        /\ turns[t].svc.session.messages = <<>>

\* the session request t leaves when its write is the one that counts: the
\* history it read, its user message and its response, the matching count,
\* and its title, or the title it read when it has none
WrittenBy(t) ==
    LET l == turns[t].svc
    IN [messages |-> Append(l.messages, Message("assistant", l.response_text)),
        message_count |-> Len(l.messages) + 1,
        title |-> IF l.title # None THEN l.title ELSE l.session.title]

(***************************************************************************)
(* C28: when two turns on the same session id run at the same time, both   *)
(* reading the history before either writes, the session stored after both *)
(* have finished is exactly the state written by one of them (last writer  *)
(* wins): its messages are the history that turn read followed by its own  *)
(* user message and assistant response, with the matching message_count,   *)
(* and no field or message of it comes from the other write.               *)
(***************************************************************************)
C28_LastWriterWins ==
    AllReadBeforeAnyWrite =>
        \E t \in TurnIds : Persisted(get_session(store, SESSION_ID)) = WrittenBy(t)

\* the positions of the executed history at which node n ran
RunsAt(n) == {i \in 1..Len(executed) : executed[i] = n}

(***************************************************************************)
(* C31: in every turn the router executes exactly once and before any      *)
(* other node, each of qa_node, response_synthesizer_node and              *)
(* error_handler_node executes at most once and nothing executes after it, *)
(* and the SQL generator is the only node that executes more than once: a  *)
(* further execution follows directly on a failed one, while fewer than    *)
(* MAX_ITERATIONS were made.                                               *)
(***************************************************************************)
C31_NoNodeRevisitedButSqlGenerator ==
    /\ executed # <<>> => RunsAt("router") = {1}
    /\ \A n \in TerminalNodes :
          /\ Cardinality(RunsAt(n)) <= 1
          /\ RunsAt(n) \subseteq {Len(executed)}
    /\ \A i \in RunsAt("sql_generator_node") :
          /\ executed[i - 1] \in {"router", "sql_generator_node"}
          /\ executed[i - 1] = "sql_generator_node" =>
                /\ ~outcomes[i - 2]
                /\ i - 2 < MAX_ITERATIONS
    /\ (executed # <<>> /\ Last(executed) \in TerminalNodes) => next = END

\* the SQL generator ran three times, each time after a failure, and the
\* error handler ran once after it
C31_Witness ==
    /\ executed = <<"router", "sql_generator_node", "sql_generator_node", "sql_generator_node", "error_handler_node">>
    /\ next = END

(***************************************************************************)
(* C32: a successful SQL attempt sets generated_sql and a non-null         *)
(* sql_result (also when the query returned zero rows), increments         *)
(* n_iterations by exactly 1 and leaves attempt_history unchanged; a       *)
(* failed attempt sets generated_sql, leaves sql_result null, increments   *)
(* n_iterations by exactly 1 and appends exactly one {sql, error} record   *)
(* whose sql is the query just executed.                                   *)
(***************************************************************************)
\* the queries the tool can be handed: the cleaned outputs of the model
ExecutedQueries == {clean_sql_output(raw) : raw \in RawSqlOutputs}

SqlAttemptMade == Len(outcomes') = Len(outcomes) + 1

C32_SqlAttemptFrame ==
    [][SqlAttemptMade =>
          /\ state'.generated_sql \in ExecutedQueries
          /\ state'.n_iterations = state.n_iterations + 1
          /\ IF Last(outcomes')
             THEN /\ state'.sql_result \in {"[]", "[rows]"}
                  /\ state'.sql_result # None
                  /\ state'.attempt_history = state.attempt_history
             ELSE /\ state'.sql_result = None
                  /\ Len(state'.attempt_history) = Len(state.attempt_history) + 1
                  /\ SubSeq(state'.attempt_history, 1, Len(state.attempt_history))
                        = state.attempt_history
                  /\ DOMAIN Last(state'.attempt_history) = {"sql", "error"}
                  /\ Last(state'.attempt_history).sql = state'.generated_sql
                  /\ Last(state'.attempt_history).error \in Errors]_vars

\* a failed attempt on a fenced answer, then a successful one with zero rows
C32_Witness ==
    /\ outcomes = <<FALSE, TRUE>>
    /\ state.sql_result = "[]"
    /\ state.n_iterations = 2
    /\ Len(state.attempt_history) = 1
    /\ state.attempt_history[1].sql = <<"Y">>

(***************************************************************************)
(* C33: attempt_history is append-only within a turn: after any step of    *)
(* the turn its previous value is a prefix of its new value, and its       *)
(* entries stand in the order in which the failed attempts were made.      *)
(***************************************************************************)
IsPrefix(s, t) == Len(s) <= Len(t) /\ SubSeq(t, 1, Len(s)) = s

\* the step belongs to the turn being served: no new request was taken
SameTurn == pending' = pending

IsFailedToolCall(c) == c[1] = "tool" /\ c[3] # "rows"

\* the failures the SQL tool returned in this turn, in the order of its calls
FailedToolCalls == SelectSeq(calls, IsFailedToolCall)

\* how the engine failed to give the error of a record
FailureOf(attempt) ==
    IF attempt.error \in TransportErrors THEN "transport_failure" ELSE "query_failure"

C33_AttemptHistoryAppendOnly ==
    /\ [][SameTurn => IsPrefix(state.attempt_history, state'.attempt_history)]_vars
    /\ [](/\ Len(state.attempt_history) = Len(FailedToolCalls)
          /\ \A i \in 1..Len(state.attempt_history) :
                FailureOf(state.attempt_history[i]) = FailedToolCalls[i][3])

\* two failures of different kinds, the later one recorded after the earlier
C33_Witness ==
    /\ Len(state.attempt_history) = 2
    /\ state.attempt_history[1].error \in QueryErrors
    /\ state.attempt_history[2].error \in TransportErrors
    /\ outcomes = <<FALSE, FALSE>>

(***************************************************************************)
(* C34: the prompt of the k-th SQL generation attempt of a turn contains   *)
(* exactly the k-1 earlier failed attempts, in order, numbered 1..k-1,     *)
(* each with its SQL and its error; the prompt of the first attempt states *)
(* that there is no prior attempt.                                         *)
(***************************************************************************)
IsSqlModelCall(c) == c[1] = "model" /\ c[2] = "sql_generator_node"

\* the invocations of the SQL model in this turn, one per attempt
SqlModelCalls == SelectSeq(calls, IsSqlModelCall)

\* the system prompt of the k-th attempt, as the model received it
PromptOf(k) == SqlModelCalls[k][5][1].content

IsAttemptTitle(line) ==
    /\ Len(line) >= 3
    /\ Head(line) = "--- Attempt #"
    /\ Last(line) = " ---"

\* where the prompt opens the block of an attempt, in reading order
AttemptTitlesIn(prompt) == {p \in 1..Len(prompt) : IsAttemptTitle(prompt[p])}

\* the j-th smallest of a set of positions
NthOf(positions, j) ==
    CHOOSE p \in positions : Cardinality({q \in positions : q <= p}) = j

C34_PromptListsEarlierFailures ==
    \A k \in 1..Len(SqlModelCalls) :
        LET prompt == PromptOf(k)
            titles == AttemptTitlesIn(prompt)
        IN /\ Cardinality(titles) = k - 1
           /\ Len(state.attempt_history) >= k - 1
           /\ \A j \in 1..(k - 1) :
                 LET p == NthOf(titles, j)
                 IN /\ SubSeq(prompt[p], 2, Len(prompt[p]) - 1) = StrOfInt(j)
                    /\ prompt[p + 2] = state.attempt_history[j].sql
                    /\ prompt[p + 4] = state.attempt_history[j].error
           /\ (k = 1) <=> (\E p \in 1..Len(prompt) : prompt[p] = NO_PREVIOUS_ATTEMPTS)

\* the third attempt was prompted with the two failures before it
C34_Witness ==
    /\ Len(SqlModelCalls) = 3
    /\ Cardinality(AttemptTitlesIn(PromptOf(3))) = 2
    /\ state.attempt_history[1].error # state.attempt_history[2].error
    /\ state.attempt_history[1].sql # state.attempt_history[2].sql

(***************************************************************************)
(* C35: markdown stripping.  Stripping an already-clean SQL string (no     *)
(* code fence, nothing around it) returns it unchanged; stripping a string *)
(* wrapped in a fence, with or without the sql tag, returns the inner      *)
(* query; and stripping the result of a strip again returns the same       *)
(* string.                                                                 *)
(***************************************************************************)
HasFence(text) == \E i \in 1..(Len(text) - 2) : SubSeq(text, i, i + 2) = Fence

AlreadyClean(text) == ~HasFence(text) /\ Strip(text) = text

\* the text opens with a fence and closes with another
IsWrapped(text) ==
    /\ Len(text) >= 2 * Len(Fence)
    /\ SubSeq(text, 1, Len(Fence)) = Fence
    /\ SubSeq(text, Len(text) - Len(Fence) + 1, Len(text)) = Fence

\* what stands between the fences, the tag of the opening fence and the
\* white space at both ends left out
InnerQuery(text) ==
    LET inside == SubSeq(text, Len(Fence) + 1, Len(text) - Len(Fence))
    IN Strip(IF HasSqlTag(inside) THEN SubSeq(inside, 4, Len(inside)) ELSE inside)

C35_StrippingIsIdempotent ==
    /\ Len(cleaned) >= 1 =>
          /\ AlreadyClean(llm_text) => cleaned[1] = llm_text
          /\ IsWrapped(llm_text) => cleaned[1] = InnerQuery(llm_text)
    /\ Len(cleaned) >= 2 => cleaned[2] = cleaned[1]

(***************************************************************************)
(* C36: every turn terminates: the SQL generator executes at most          *)
(* MAX_ITERATIONS times in a turn and the retry loop cannot cycle forever. *)
(* While the stream of a turn runs, a step of it can be taken, every step  *)
(* lowers the number of steps the turn may still take, and the step that   *)
(* ends the stream has yielded the final event or the error event.         *)
(***************************************************************************)
StreamEnded == FinalEvents # <<>> \/ ErrorEvents # <<>>

\* the longest run of a turn: the router, MAX_ITERATIONS attempts, a terminal
\* node, then the final event
LongestRun == MAX_ITERATIONS + 3

\* how many steps the stream of the turn may still take
StepsLeft == IF pc = "streaming" THEN LongestRun - Len(executed) ELSE 0

C36_TurnTerminates ==
    /\ [](Runs("sql_generator_node") <= MAX_ITERATIONS)
    /\ [](pc = "streaming" =>
             /\ next \in ModelNodes \cup {"error_handler_node", END}
             /\ StepsLeft >= 1
             /\ ~StreamEnded)
    /\ [][pc = "streaming" =>
             /\ StepsLeft' < StepsLeft
             /\ pc' # "streaming" => StreamEnded']_vars

\* the budget was used up and the stream ended with its final event
C36_Witness ==
    /\ Runs("sql_generator_node") = MAX_ITERATIONS
    /\ AllSqlFailed
    /\ FinalEvents # <<>>
    /\ pc # "streaming"

(***************************************************************************)
(* C37: for every turn that completed and was saved, the session gains     *)
(* exactly two messages: the user query, then an assistant message whose   *)
(* content is the in-order concatenation of the token lines sent in that   *)
(* turn; the messages stored before keep their content and their order.    *)
(***************************************************************************)
\* the step saved the conversation of the turn
TurnSaved ==
    /\ Len(calls') > Len(calls)
    /\ Last(calls') = StoreCall("saved")

\* a line that carries text of the response: neither a title, nor an error,
\* nor [DONE]
IsContentLine(l) == ~IsTitleLine(l) /\ ~IsErrorLine(l) /\ ~IsDoneLine(l)

ContentLines == SelectSeq(lines, IsContentLine)

\* the content lines cl are tokens of one piece each
OnePieceEach(cl) == \A i \in 1..Len(cl) : Len(cl[i]) = 2

\* what the content lines cl read, one after the other: the pieces of the
\* tokens, or the text of the one line that holds the whole response
Concatenation(cl) ==
    IF OnePieceEach(cl) THEN [i \in 1..Len(cl) |-> cl[i][2]] ELSE Tail(cl[1])

SentText == LET cl == ContentLines IN Concatenation(cl)

SessionGiven(t) == turns[t].pc \in {"streaming", "done", "closed"}

C39_GetOrCreateIsSafe ==
    \A t \in TurnIds :
        /\ turns[t].pc # "no_session"
        /\ SessionGiven(t) =>
              /\ turns[t].svc.session.id = SESSION_ID
              /\ DOMAIN store = {SESSION_ID}

(***************************************************************************)
(* C38: for every stored session, after any sequence of creations, turns   *)
(* that were saved, turns that failed, saves that failed and turns served  *)
(* at the same time, message_count equals the number of stored messages.   *)
(***************************************************************************)
C38_MessageCountIsNumberOfMessages ==
    \A id \in DOMAIN store :
        /\ get_session(store, id).message_count = Len(get_session(store, id).messages)
        /\ store[id].message_count = Len(deserialize_messages(store[id].messages))

\* two requests were served at the same time and both saved; a third
\* outcome, a failed one, is in the same run
C38_Witness ==
    /\ turns[1].pc = "closed" /\ turns[2].pc = "closed"
    /\ turns[1].svc.message_count = 1 /\ turns[2].svc.message_count = 1
    /\ get_session(store, SESSION_ID).message_count = 2
    /\ Len(get_session(store, SESSION_ID).messages) = 2

(***************************************************************************)
(* C40: deleting a session id that has no session is answered with         *)
(* HTTP 404 'Session not found' and changes nothing; only the deletion of  *)
(* a session that exists is answered as deleted.                           *)
(***************************************************************************)
\* the step sent a response to a DELETE on the session id
DeleteAnswered == http_response' # http_response

C40_DeleteOfMissingIsNotFound ==
    /\ [][DeleteAnswered =>
             IF SESSION_ID \in DOMAIN store
             THEN /\ http_response'.status_code = 200
                  /\ http_response'.status = "deleted"
                  /\ http_response'.session_id = SESSION_ID
             ELSE /\ http_response' = HTTPException(404, "Session not found")
                  /\ store' = store]_vars
    /\ [](http_response.status_code = 200 => SESSION_ID \in DOMAIN store)

====
